---- MODULE Spec2Model ----
(***************************************************************************)
(* find-large-dirs: the breadth-first directory-size scanner.              *)
(*                                                                         *)
(* The module models the aggregating program (bfsScan, aggregateTotals,    *)
(* progressReporter and main): one traversal goroutine (main itself), one  *)
(* reporter goroutine and the interrupt handler.  Strings are sequences of *)
(* one-character strings, so that prefix tests, base names, separators and *)
(* extensions are computed as the Go library computes them.  The           *)
(* filesystem is the environment: what ioutil.ReadDir returns for a        *)
(* directory, and how long the enumeration takes, is chosen when the       *)
(* directory is read.  The identity-checking variant of bfsComputeSizes    *)
(* and the single-pass program of find-large-dirs.go (bfsComputeSizes in a *)
(* goroutine of its own, a progress goroutine, main collecting results)    *)
(* are further state machines over the same environment; each              *)
(* specification starts one program and leaves the others off.             *)
(***************************************************************************)
EXTENDS Integers, Sequences, FiniteSets, TLC

VARIABLES
    profile,      \* the family of filesystems the environment presents
    root,         \* main: root (flag.Arg(0) or "/")
    excl,         \* main: exclude (the --exclude flags)
    pc,           \* position of the main goroutine (bfsScan runs in it)
    q,            \* bfsScan: q, the FIFO queue of paths
    res,          \* bfsScan: res / main: m, the map path -> *FolderSize
    dir,          \* bfsScan: dir, the directory of the current iteration
    dirCnt,       \* bfsScan: dirCnt
    bytesTotal,   \* bfsScan: bytesTotal
    prog,         \* main: prog, the buffered progress channel (its content)
    progClosed,   \* whether close(prog) has happened
    rpc,          \* position of the progressReporter goroutine
    last,         \* progressReporter: last
    screen,       \* what the reporter has written on the progress line
    cancelled,    \* ctx.Done() is closed (cancel() was called)
    enq,          \* history: every path pushed on the queue, in order
    visited,      \* history: every path dequeued, in order
    readDirs,     \* history: the paths ioutil.ReadDir was called on
    slowNow,      \* history: the enumeration of the last dequeued path exceeded slow
    lateDeq,      \* history: dequeues that happened with ctx already done
    leftByCancel, \* history: the scan loop was left by "break scan"
    aggRuns,      \* history: completed calls of aggregateTotals
    scanned,      \* history: the map as bfsScan returned it
    agg1,         \* history: the map after the first aggregateTotals
    failed,       \* history: the paths whose ioutil.ReadDir returned an error
    rdNow,        \* history: ents of the current iteration and the index of its break
    sent,         \* history: every progressUpdate sent on prog, in order
    lastSeq,      \* history: the values assigned to the reporter's last, in order
    doneSent,     \* history: completed sends on done
    goos,         \* identity scan: runtime.GOOS
    netMap,       \* identity scan: netMap, the mount points of network filesystems
    pc3,          \* identity scan: position of the main goroutine
    idQueue,      \* bfsComputeSizes: queue
    resultsMap,   \* bfsComputeSizes: resultsMap
    visitedDevIno,\* bfsComputeSizes: visitedDevIno, as the set of keys mapped to true
    dirCount,     \* bfsComputeSizes: dirCount
    totalBytes,   \* bfsComputeSizes: totalBytes
    outMsg,       \* bfsComputeSizes: the scanProgress of the pending send
    toPush,       \* bfsComputeSizes: the sub-directories to push after the send
    progressChan, \* main: progressChan, the buffered progress channel (its content)
    chanClosed,   \* whether close(progressChan) has happened
    rpc3,         \* identity scan: position of the progressReporter goroutine
    lastMsg,      \* progressReporter: lastMsg
    screen3,      \* identity scan: what the reporter has written on the progress line
    dequeued,     \* history: every path bfsComputeSizes dequeued, in order
    pushedAll,    \* history: every path bfsComputeSizes pushed, in order
    wasRead,      \* history: the paths bfsComputeSizes called ioutil.ReadDir on
    keyOf,        \* history: the key getDevInode returned for a path (0: none)
    realSize,     \* history: the sum of the file sizes ioutil.ReadDir listed for a path
    topN,         \* main: *topN (the --top flag)
    minBytes,     \* main: minBytes (the parsed --min-size flag)
    fat,          \* main: fat, the records handed to printFat, in order
    mounts,       \* single-pass scan: netMap, as the set of its keys
    bpc,          \* single-pass scan: position of the goroutine running bfsComputeSizes
    bfsQueue,     \* single-pass scan: bfsComputeSizes's queue
    dirChan,      \* single-pass scan: dirChan (its content)
    dirChanClosed,    \* whether close(dirChan) has happened
    resultChan,   \* single-pass scan: resultChan (its content)
    resultChanClosed, \* whether close(resultChan) has happened
    pending,      \* bfsComputeSizes: the FolderSize of the pending send
    kids,         \* bfsComputeSizes: the sub-directories to push after the send
    gpc,          \* single-pass scan: position of the progress goroutine
    scannedCount, \* main: scannedCount
    progressLine, \* what the progress goroutine has written on the progress line
    mpc,          \* single-pass scan: position of the main goroutine
    allResults,   \* main: allResults
    printed,      \* main: the rows written to the tabwriter, in order
    deqF,         \* history: every path bfsComputeSizes dequeued, in order
    sentF,        \* history: every FolderSize sent on resultChan, in order
    readF,        \* history: the paths ioutil.ReadDir was called on
    slowF,        \* history: the paths whose enumeration exceeded slowThreshold
    partialF,     \* history: the file bytes summed before that point, by path
    pushedF,      \* history: every path pushed on the queue, in order
    argName,      \* classifier call: n, the file name passed to classifyExtension
    argPath,      \* exclusion call: p, the path passed to isExcluded
    argRules,     \* exclusion call: ex, the --exclude list passed to isExcluded
    called,       \* the functions that have been called on these arguments
    retCategory,  \* what classifyExtension(n) returned ("" before the call)
    retExcluded,  \* what isExcluded(p, ex) of the aggregating program returned
    retExcludedBase, \* what isExcluded(p) of the single-pass program returned
    excludeFlag,  \* slice scan: main: excludeFlag (the --exclude flags)
    spc,          \* slice scan: position of the main goroutine (bfsScan runs in it)
    sQueue,       \* slice scan: bfsScan: queue
    sResults,     \* slice scan: bfsScan: results, the map path -> *FolderSize
    sDirCount,    \* slice scan: bfsScan: dirCount
    sTotalBytes,  \* slice scan: bfsScan: totalBytes
    sUpdate,      \* slice scan: the progressUpdate of the pending send
    sKids,        \* slice scan: the sub-directories to enqueue after the send
    progChan,     \* slice scan: main: progChan, the buffered channel (its content)
    progChanClosed, \* slice scan: whether close(progChan) has happened
    sCancelled,   \* slice scan: ctx.Done() is closed
    srpc,         \* slice scan: position of the progressReporter goroutine
    sLast,        \* slice scan: progressReporter: last
    sScreen,      \* slice scan: what the reporter has written on the progress line
    folders,      \* slice scan: main: folders, the slice bfsScan returned
    sSent,        \* history: every progressUpdate sent on progChan, in order
    sDone,        \* history: the paths that reached Scanned or Skipped, in order
    sReadTried,   \* history: the paths ioutil.ReadDir was called on
    sBroke        \* history: the loop was left by "break BFSLOOP"

\* the state of the identity-checking scan
idVars == << goos, netMap, pc3, idQueue, resultsMap, visitedDevIno, dirCount,
             totalBytes, outMsg, toPush, progressChan, chanClosed, rpc3,
             lastMsg, screen3, dequeued, pushedAll, wasRead, keyOf, realSize >>

\* the state of the single-pass program
fldVars == << mounts, bpc, bfsQueue, dirChan, dirChanClosed, resultChan,
              resultChanClosed, pending, kids, gpc, scannedCount, progressLine,
              mpc, allResults, printed, deqF, sentF, readF, slowF, partialF,
              pushedF >>

\* the arguments and results of the calls of the pure functions
pureVars == << argName, argPath, argRules, called, retCategory, retExcluded,
               retExcludedBase >>

\* the state of the slice-returning program
sliceVars == << excludeFlag, spc, sQueue, sResults, sDirCount, sTotalBytes,
                sUpdate, sKids, progChan, progChanClosed, sCancelled, srpc,
                sLast, sScreen, folders, sSent, sDone, sReadTried, sBroke >>

\* what main of the aggregating program selects for printing
outVars == << topN, minBytes, fat >>

\* the state of the aggregating program
scanVars == << excl, pc, q, res, dir, dirCnt, bytesTotal, prog, progClosed,
              rpc, last, screen, cancelled, enq, visited, readDirs, slowNow,
              lateDeq, leftByCancel, aggRuns, scanned, agg1, failed, rdNow,
              sent, lastSeq, doneSent, outVars >>

vars == << profile, root, excl, pc, q, res, dir, dirCnt, bytesTotal, prog,
           progClosed, rpc, last, screen, cancelled, enq, visited, readDirs,
           slowNow, lateDeq, leftByCancel, aggRuns, scanned, agg1, failed,
           rdNow, sent, lastSeq, doneSent, idVars, outVars, fldVars, pureVars,
           sliceVars >>

----------------------------------------------------------------------------
(* Bounds of the model *)

\* entries per directory listing (tree profile)
MaxEnts == 2
\* directory levels below the root that may hold sub-directories (tree profile)
MaxDepth == 2
\* directories of a tree, the root included (tree profile)
MaxDirs == 4
\* directories of a chain, the root included (chain profile)
ChainLen == 17
\* entries per directory listing (slow profile)
SlowEnts == 4
\* entries per directory listing (ident profile)
IdEnts == 2
\* directories of a tree, the root included (ident profile)
IdDirs == 4
\* distinct (device, inode) keys (ident profile)
MaxKeys == 2
\* the largest value of the --top flag tried
MaxTop == 2
\* single-pass scan: the longest directory listing tried
FldEnts == 2
\* single-pass scan: the number of directories of a chain, more than
\* resultChan holds
FldChainLen == 9
\* entries per directory listing (mixed profile)
MixEnts == 2
\* entries per directory listing (wide profile)
WideEnts == 3

(* Program constants *)

\* main: prog := make(chan progressUpdate, 16)
ProgCap == 16
\* main of the identity-checking program: make(chan scanProgress, 10)
IdChanCap == 10
\* main of the single-pass program: make(chan string, 1)
DirChanCap == 1
\* main of the single-pass program: make(chan FolderSize, 8)
ResultChanCap == 8
\* capacity of progChan of the slice-returning program
SliceChanCap == 10

----------------------------------------------------------------------------
(* Strings: sequences of one-character strings *)

Sep == "/"

\* bytes in increasing order, for the comparison of file names
Alphabet ==
    <<
       ".", "/", "0", "1", "2", "3", "4", "5", "6", "7", "8", "9", "A", "B", "C", "D",
       "E", "F", "G", "H", "I", "J", "K", "L", "M", "N", "O", "P", "Q", "R", "S", "T",
       "U", "V", "W", "X", "Y", "Z", "a", "b", "c", "d", "e", "f", "g", "h", "i", "j",
       "k", "l", "m", "n", "o", "p", "q", "r", "s", "t", "u", "v", "w", "x", "y", "z" >>

CodeTable ==
    [c \in {Alphabet[i] : i \in 1..Len(Alphabet)} |->
        CHOOSE i \in 1..Len(Alphabet) : Alphabet[i] = c]

CharCode(c) == CodeTable[c]

\* a < b as Go compares strings (bytewise, a proper prefix is smaller)
StrLess(a, b) ==
    \E k \in 0..Len(a) :
        /\ k <= Len(b)
        /\ \A i \in 1..k : a[i] = b[i]
        /\ \/ k = Len(a) /\ Len(b) > k
           \/ k < Len(a) /\ k < Len(b) /\ CharCode(a[k+1]) < CharCode(b[k+1])

UpperToLower ==
    "A" :> "a" @@ "B" :> "b" @@ "C" :> "c" @@ "D" :> "d" @@ "E" :> "e" @@ "F" :> "f" @@
    "G" :> "g" @@ "H" :> "h" @@ "I" :> "i" @@ "J" :> "j" @@ "K" :> "k" @@ "L" :> "l" @@
    "M" :> "m" @@ "N" :> "n" @@ "O" :> "o" @@ "P" :> "p" @@ "Q" :> "q" @@ "R" :> "r" @@
    "S" :> "s" @@ "T" :> "t" @@ "U" :> "u" @@ "V" :> "v" @@ "W" :> "w" @@ "X" :> "x" @@
    "Y" :> "y" @@ "Z" :> "z"

\* strings.ToLower
ToLower(s) ==
    [i \in 1..Len(s) |->
        IF s[i] \in DOMAIN UpperToLower THEN UpperToLower[s[i]] ELSE s[i]]

\* strings.HasPrefix
HasPrefix(s, pre) == Len(pre) <= Len(s) /\ SubSeq(s, 1, Len(pre)) = pre

\* strings.Count(s, c) for a one-byte c
Count(s, c) == Cardinality({i \in 1..Len(s) : s[i] = c})

\* index of the last c in s, 0 when there is none
LastIndex(s, c) ==
    IF \E i \in 1..Len(s) : s[i] = c
    THEN CHOOSE i \in 1..Len(s) : s[i] = c /\ \A j \in (i+1)..Len(s) : s[j] # c
    ELSE 0

RECURSIVE StripTrailingSeps(_)
StripTrailingSeps(s) ==
    IF Len(s) > 0 /\ s[Len(s)] = Sep
    THEN StripTrailingSeps(SubSeq(s, 1, Len(s) - 1))
    ELSE s

\* filepath.Base
Base(p) ==
    IF p = <<>> THEN <<".">>
    ELSE LET s == StripTrailingSeps(p)
             t == SubSeq(s, LastIndex(s, Sep) + 1, Len(s))
         IN  IF t = <<>> THEN <<Sep>> ELSE t

\* filepath.Dir, for paths without "." and ".." elements and without
\* doubled separators (the paths filepath.Join builds from such a root)
Dir(p) ==
    LET d == SubSeq(p, 1, LastIndex(p, Sep))
        s == StripTrailingSeps(d)
    IN  IF d = <<>> THEN <<".">>
        ELSE IF s = <<>> THEN <<Sep>>
        ELSE s

\* filepath.Join(dir, name), for a clean dir and a plain name
Join(d, name) ==
    IF d # <<>> /\ d[Len(d)] = Sep THEN d \o name ELSE d \o <<Sep>> \o name

\* filepath.Ext: the suffix of the last element from its last dot on
Ext(n) ==
    LET b == SubSeq(n, LastIndex(n, Sep) + 1, Len(n))
        i == LastIndex(b, ".")
    IN  IF i = 0 THEN <<>> ELSE SubSeq(b, i, Len(b))

----------------------------------------------------------------------------
(* Exclusion policy and content classifier *)

BuiltinExcluded ==
    { <<"p","r","o","c">>, <<"s","y","s">>, <<"d","e","v">>,
      <<"r","u","n">>, <<"t","m","p">>, <<"v","a","r">> }

isExcluded(p, ex) ==
    \/ \E i \in 1..Len(ex) : HasPrefix(p, ex[i])
    \/ ToLower(Base(p)) \in BuiltinExcluded

ExtCases ==
    << [exts |-> {<<".","j","p","g">>, <<".","j","p","e","g">>, <<".","p","n","g">>, <<".","g","i","f">>, <<".","b","m","p">>, <<".","t","i","f","f">>, <<".","r","a","w">>, <<".","w","e","b","p">>, <<".","h","e","i","c">>, <<".","h","e","i","f">>},
        cat |-> "Image"],
       [exts |-> {<<".","m","p","4">>, <<".","m","o","v">>, <<".","a","v","i">>, <<".","m","k","v">>, <<".","f","l","v">>, <<".","w","m","v">>, <<".","w","e","b","m">>, <<".","m","4","v">>},
        cat |-> "Video"],
       [exts |-> {<<".","m","p","3">>, <<".","w","a","v">>, <<".","f","l","a","c">>, <<".","a","a","c">>, <<".","o","g","g">>, <<".","m","4","a">>, <<".","w","m","a">>},
        cat |-> "Audio"],
       [exts |-> {<<".","z","i","p">>, <<".","r","a","r">>, <<".","7","z">>, <<".","t","a","r">>, <<".","g","z">>, <<".","b","z","2">>, <<".","x","z">>},
        cat |-> "Archive"],
       [exts |-> {<<".","p","d","f">>, <<".","d","o","c">>, <<".","d","o","c","x">>, <<".","t","x","t">>, <<".","r","t","f">>},
        cat |-> "Document"],
       [exts |-> {<<".","e","x","e">>, <<".","d","l","l">>, <<".","s","o">>, <<".","b","i","n">>, <<".","d","m","g">>, <<".","p","k","g">>, <<".","a","p","k">>},
        cat |-> "Application"],
       [exts |-> {<<".","g","o">>, <<".","c">>, <<".","c","p","p">>, <<".","h">>, <<".","h","p","p">>, <<".","j","s">>, <<".","t","s">>, <<".","p","y">>, <<".","j","a","v","a">>, <<".","s","h">>, <<".","r","b">>, <<".","p","h","p">>},
        cat |-> "Code"],
       [exts |-> {<<".","l","o","g">>, <<".","t","r","a","c","e">>},
        cat |-> "Log"],
       [exts |-> {<<".","d","b">>, <<".","s","q","l","i","t","e">>, <<".","s","q","l","i","t","e","3">>, <<".","r","d","b">>},
        cat |-> "Database"],
       [exts |-> {<<".","b","a","k">>, <<".","b","a","c","k","u","p">>},
        cat |-> "Backup"],
       [exts |-> {<<".","s","q","l">>},
        cat |-> "DB-Backup"],
       [exts |-> {<<".","i","s","o">>, <<".","i","m","g">>, <<".","v","h","d">>, <<".","v","h","d","x">>, <<".","v","m","d","k">>},
        cat |-> "Disk Image"],
       [exts |-> {<<".","c","o","n","f">>, <<".","c","f","g">>, <<".","i","n","i">>, <<".","y","a","m","l">>, <<".","y","m","l">>, <<".","j","s","o","n">>, <<".","x","m","l">>},
        cat |-> "Configuration"],
       [exts |-> {<<".","t","t","f">>, <<".","o","t","f">>, <<".","w","o","f","f">>},
        cat |-> "Font"],
       [exts |-> {<<".","h","t","m","l">>, <<".","h","t","m">>, <<".","c","s","s">>},
        cat |-> "Web"],
       [exts |-> {<<".","o","d","s">>, <<".","x","l","s">>, <<".","x","l","s","x">>, <<".","c","s","v">>},
        cat |-> "Spreadsheet"],
       [exts |-> {<<".","o","d","p">>, <<".","p","p","t">>, <<".","p","p","t","x">>},
        cat |-> "Presentation"] >>

Categories == {ExtCases[i].cat : i \in 1..Len(ExtCases)} \cup {"Other"}

classifyExtension(n) ==
    LET e == ToLower(Ext(n))
    IN  IF \E i \in 1..Len(ExtCases) : e \in ExtCases[i].exts
        THEN ExtCases[CHOOSE i \in 1..Len(ExtCases) : e \in ExtCases[i].exts].cat
        ELSE "Other"

----------------------------------------------------------------------------
(* Records *)

\* &FolderSize{Path: p, FileTypes: map[string]int64{}}; a missing map key
\* reads as 0 in Go, so the histogram is a total function with 0 entries
NewFolder(p) ==
    [Path |-> p, Size |-> 0, Total |-> 0, FileCount |-> 0, Oldest |-> 0,
     Newest |-> 0, Skipped |-> FALSE, FileTypes |-> [c \in Categories |-> 0]]

\* the zero progressUpdate
ZeroUpdate == [CurrentDir |-> <<>>, NumDirs |-> 0, BytesTotal |-> 0]

\* the zero scanProgress of the identity-checking program
ZeroProgress ==
    [CurrentDir |-> <<>>, DirsCount |-> 0, BytesSoFar |-> 0, DuplicateHit |-> FALSE]

\* bfsScan: ensure(p), as the map after the call
ensure(m, p) ==
    IF p \in DOMAIN m THEN m
    ELSE [x \in DOMAIN m \cup {p} |-> IF x = p THEN NewFolder(p) ELSE m[x]]

\* the variant that keeps no record of a directory it does not enumerate
MarkSkipped_NoRecord(m, p) == m

\* the variant that creates the record but leaves it unmarked
MarkSkipped_Unmarked(m, p) == ensure(m, p)

\* ensure(dir).Skipped = true
MarkSkipped(m, p) == [ensure(m, p) EXCEPT ![p].Skipped = TRUE]

\* container/list as used by bfsScan
QFront(queue) == Head(queue)

\* the variant that leaves the front element in the list
QRemove_Keeps(queue) == queue

QRemove(queue) == Tail(queue)

\* the variant that pushes at the front (a stack)
PushBack_AtFront(queue, p) == <<p>> \o queue

PushBack(queue, p) == Append(queue, p)

----------------------------------------------------------------------------
(* The environment: directory listings and timing *)

Str_a == <<"a">>
Str_b == <<"b">>
Str_c == <<"c">>
Str_d == <<"d">>
Str_f == <<"f">>
Str_tmp == <<"t","m","p">>
Str_g == <<"g">>
Str_h == <<"h">>
Str_x == <<"x">>
Str_z == <<"z">>
Str_slow == <<"s","l","o","w">>
Str_dev == <<"d","e","v">>
Str_f_sql == <<"f",".","s","q","l">>
Str_g_ISO == <<"g",".","I","S","O">>

Profiles == {"tree", "chain", "slow", "ident", "host", "deep", "mixed", "wide"}
Roots == { <<Sep>>, <<Sep>> \o Str_a }

\* the --exclude list tried with a root: the one path <root>/b/d
Excludes(r) == { << Join(Join(r, Str_b), Str_d) >> }

\* number of path elements below "/"
Level(p) == IF p = <<Sep>> THEN 0 ELSE Count(p, Sep)

\* names of the sub-directories of d: b and tmp directly below the root, c and
\* d below those (tree); a everywhere (chain); slow and z directly below the
\* root, x below slow (slow); b, c and tmp directly below the root, d below
\* those (ident); b and tmp directly below the root, c below b (host); a
\* everywhere (deep); b and c directly below the root (mixed); b, dev and z
\* directly below the root (wide)
DirNames(pf, r, d) ==
    IF pf = "tree"
    THEN IF d = r THEN {Str_b, Str_tmp} ELSE {Str_c, Str_d}
    ELSE IF pf = "slow"
    THEN IF d = r THEN {Str_slow, Str_z}
         ELSE IF Base(d) = Str_slow THEN {Str_x} ELSE {}
    ELSE IF pf = "ident"
    THEN IF d = r THEN {Str_b, Str_c, Str_tmp}
         ELSE IF Dir(d) = r THEN {Str_d} ELSE {}
    ELSE IF pf = "host"
    THEN IF d = r THEN {Str_b, Str_tmp}
         ELSE IF Base(d) = Str_b THEN {Str_c} ELSE {}
    ELSE IF pf = "mixed"
    THEN IF d = r THEN {Str_b, Str_c} ELSE {}
    ELSE IF pf = "wide"
    THEN IF d = r THEN {Str_b, Str_dev, Str_z} ELSE {}
    ELSE {Str_a}
\* the regular files: f (tree, ident, host); f.sql and g.ISO (mixed); f and g
\* (wide, below the root only)
FileNames(pf) ==
    IF pf \in {"tree", "ident", "host"} THEN {Str_f}
    ELSE IF pf = "mixed" THEN {Str_f_sql, Str_g_ISO}
    ELSE IF pf = "wide" THEN {Str_f, Str_g}
    ELSE {}
\* a regular file k levels below the root holds 100 * (k + 1) bytes
FileSizes(r, d) == {100 * (Level(d) - Level(r) + 1)}
\* modification times, as seconds after the zero time.Time (0)
ModTimes == {1}
MixedModTimes == {1, 2}
ModTimesOf(pf) == IF pf = "mixed" THEN MixedModTimes ELSE ModTimes

DirEntry(n) == [name |-> n, isDir |-> TRUE, size |-> 0, mt |-> 0]
FileEntry(n, s, t) == [name |-> n, isDir |-> FALSE, size |-> s, mt |-> t]

\* the regular files of the directory named slow: f, g, h of 20, 30, 40 bytes
SlowDirFiles ==
    {FileEntry(Str_f, 20, 1), FileEntry(Str_g, 30, 1), FileEntry(Str_h, 40, 1)}

EntryChoices(pf, r, d) ==
    IF pf = "slow"
    THEN {DirEntry(n) : n \in DirNames(pf, r, d)}
         \cup (IF Base(d) = Str_slow THEN SlowDirFiles ELSE {})
    ELSE IF pf = "wide" /\ d = r
    THEN {DirEntry(n) : n \in DirNames(pf, r, d)}
    ELSE {DirEntry(n) : n \in DirNames(pf, r, d)}
         \cup {FileEntry(n, s, t) : n \in FileNames(pf), s \in FileSizes(r, d), t \in ModTimesOf(pf)}

NumDirsIn(ents) == Cardinality({i \in 1..Len(ents) : ents[i].isDir})

\* ioutil.ReadDir returns the entries sorted by file name; names are unique
SortedByName(ents) ==
    \A i \in 1..(Len(ents) - 1) : StrLess(ents[i].name, ents[i+1].name)

\* how many entries a listing of d may hold, and how many sub-directories
\* (the tree stays within MaxDepth levels and MaxDirs or ChainLen directories)
MaxListing(pf) ==
    IF pf = "tree" THEN MaxEnts
    ELSE IF pf = "slow" THEN SlowEnts
    ELSE IF pf = "ident" THEN IdEnts
    ELSE IF pf = "host" THEN FldEnts
    ELSE IF pf = "mixed" THEN MixEnts
    ELSE IF pf = "wide" THEN WideEnts
    ELSE 1
DirBudget(pf, r, d, pushedSoFar) ==
    IF pf = "tree"
    THEN IF Level(d) - Level(r) >= MaxDepth THEN 0 ELSE MaxDirs - pushedSoFar
    ELSE IF pf = "slow" THEN SlowEnts
    ELSE IF pf = "ident"
    THEN IdDirs - pushedSoFar
    ELSE IF pf = "host" THEN FldEnts
    ELSE IF pf = "deep" THEN FldChainLen - pushedSoFar
    ELSE IF pf = "mixed" THEN MixEnts
    ELSE IF pf = "wide" THEN WideEnts
    ELSE ChainLen - pushedSoFar

Listings(pf, r, d, pushedSoFar) ==
    UNION { { e \in [1..k -> EntryChoices(pf, r, d)] :
                /\ SortedByName(e)
                /\ NumDirsIn(e) <= DirBudget(pf, r, d, pushedSoFar) }
            : k \in 0..MaxListing(pf) }

\* slowAt: the first entry index at whose time check time.Since(start) > slow
\* holds (0: already when ReadDir returns; Len+1: never).  Elapsed time only
\* grows, so the check holds at every later index too.
SlowChoices(pf, ents) ==
    IF pf \in {"tree", "mixed", "wide"} THEN 0..(Len(ents) + 1) ELSE {Len(ents) + 1}

\* in the slow profile only the directory named slow is slow to enumerate
SlowPoints(pf, d, ents) ==
    IF pf = "slow" /\ Base(d) = Str_slow THEN 0..(Len(ents) + 1)
    ELSE IF pf = "ident" THEN 1..(Len(ents) + 1)
    ELSE IF pf = "host" THEN 0..(Len(ents) + 1)
    ELSE SlowChoices(pf, ents)

ReadOutcomes(pf, r, d, pushedSoFar) ==
    {[err |-> TRUE, ents |-> <<>>, slowAt |-> 1]}
    \cup UNION { {[err |-> FALSE, ents |-> e, slowAt |-> s] : s \in SlowPoints(pf, d, e)}
                 : e \in Listings(pf, r, d, pushedSoFar) }

\* the bytes of the regular files among the first n entries of ents
RECURSIVE FileBytes(_, _)
FileBytes(ents, n) ==
    IF n = 0 THEN 0
    ELSE FileBytes(ents, n - 1) + (IF ents[n].isDir THEN 0 ELSE ents[n].size)

\* the bytes of the regular files of ents before entry slowAt
FileBytesBefore(ents, slowAt) ==
    FileBytes(ents, IF slowAt > Len(ents) THEN Len(ents) ELSE slowAt - 1)

\* time.Since(start) > slow at the check after entry i
Elapsed(i, slowAt) == i >= slowAt

\* the enumeration of ents took longer than slow at some point
WasSlow(ents, slowAt) == slowAt <= Len(ents)

----------------------------------------------------------------------------
(* bfsScan *)

\* the variant that leaves the histogram alone
AddFile_Untyped(fs, fi) ==
    [fs EXCEPT
        !.Size = @ + fi.size,
        !.FileCount = @ + 1,
        !.Oldest = IF fs.Oldest = 0 \/ fi.mt < fs.Oldest THEN fi.mt ELSE @,
        !.Newest = IF fi.mt > fs.Newest THEN fi.mt ELSE @]

\* the body of the entry loop for a regular file (own size, histogram,
\* file count, time span)
AddFile(fs, fi) ==
    [fs EXCEPT
        !.Size = @ + fi.size,
        !.FileTypes[classifyExtension(fi.name)] = @ + fi.size,
        !.FileCount = @ + 1,
        !.Oldest = IF fs.Oldest = 0 \/ fi.mt < fs.Oldest THEN fi.mt ELSE @,
        !.Newest = IF fi.mt > fs.Newest THEN fi.mt ELSE @]

\* for _, fi := range ents { ... } from entry i on: the record, the queue, the
\* paths pushed and the index of the entry at which the loop broke (0: it ran
\* to the end)
\* the variant that marks the record on the time check but goes on with the
\* remaining entries
RECURSIVE ScanEntries_NoBreak(_, _, _, _, _, _, _)
ScanEntries_NoBreak(fs, d, ents, i, slowAt, queue, pushed) ==
    IF i > Len(ents) THEN [fs |-> fs, q |-> queue, pushed |-> pushed, cut |-> 0]
    ELSE IF ents[i].isDir
    THEN ScanEntries_NoBreak(fs, d, ents, i + 1, slowAt,
                             PushBack(queue, Join(d, ents[i].name)),
                             Append(pushed, Join(d, ents[i].name)))
    ELSE LET fs2  == AddFile(fs, ents[i])
             rest == ScanEntries_NoBreak(fs2, d, ents, i + 1, slowAt, queue, pushed)
         IN  IF Elapsed(i, slowAt)
             THEN [rest EXCEPT !.fs.Skipped = TRUE, !.cut = i]
             ELSE rest

RECURSIVE ScanEntries(_, _, _, _, _, _, _)
ScanEntries(fs, d, ents, i, slowAt, queue, pushed) ==
    IF i > Len(ents) THEN [fs |-> fs, q |-> queue, pushed |-> pushed, cut |-> 0]
    ELSE IF ents[i].isDir
    THEN ScanEntries(fs, d, ents, i + 1, slowAt,
                     PushBack(queue, Join(d, ents[i].name)),
                     Append(pushed, Join(d, ents[i].name)))
    ELSE LET fs2 == AddFile(fs, ents[i])
         IN  IF Elapsed(i, slowAt)
             THEN [fs |-> [fs2 EXCEPT !.Skipped = TRUE], q |-> queue,
                   pushed |-> pushed, cut |-> i]
             ELSE ScanEntries(fs2, d, ents, i + 1, slowAt, queue, pushed)

\* no directory listing at hand (outside the entry loop's iteration)
NoRead == [ents |-> <<>>, cut |-> 0]

\* the variant that leaves Total as the record was created, at 0
SetOwnTotal_Unset(fs) == fs

\* fsDir.Total = fsDir.Size
SetOwnTotal(fs) == [fs EXCEPT !.Total = fs.Size]

\* for q.Len() > 0 { select { case <-ctx.Done(): break scan; default: } ...
\* with ctxDone telling whether the receive from ctx.Done() can proceed
CheckStep(ctxDone) ==
    /\ pc = "check"
    /\ IF Len(q) = 0
       THEN /\ pc' = "close"
            /\ scanned' = res
            /\ UNCHANGED leftByCancel
       ELSE IF ctxDone
       THEN /\ pc' = "close"
            /\ scanned' = res
            /\ leftByCancel' = TRUE
       ELSE /\ pc' = "visit"
            /\ UNCHANGED << scanned, leftByCancel >>
    /\ UNCHANGED << profile, root, excl, q, res, dir, dirCnt, bytesTotal, prog,
                    progClosed, rpc, last, screen, cancelled, enq, visited,
                    readDirs, slowNow, lateDeq, aggRuns, agg1 >>
    /\ UNCHANGED << failed, rdNow, sent, lastSeq, doneSent, idVars, outVars, fldVars, pureVars, sliceVars >>

\* the ignored-signal variant of the loop head
BfsCheck_IgnoresCancel == CheckStep(FALSE)

BfsCheck == CheckStep(cancelled)

\* one iteration of the loop from q.Front() up to the progress send, with
\* excluded the outcome of isExcluded(dir, excl)
VisitStep(excluded) ==
    /\ pc = "visit"
    /\ LET d  == QFront(q)
           q1 == QRemove(q)
       IN  /\ visited' = Append(visited, d)
           /\ lateDeq' = IF cancelled THEN lateDeq + 1 ELSE lateDeq
           /\ IF excluded
              THEN /\ res' = MarkSkipped(res, d)
                   /\ q' = q1
                   /\ pc' = "check"
                   /\ slowNow' = FALSE
                   /\ rdNow' = NoRead
                   /\ UNCHANGED << dir, dirCnt, bytesTotal, enq, readDirs, failed >>
              ELSE \E rd \in ReadOutcomes(profile, root, d, Len(enq)) :
                   /\ readDirs' = readDirs \cup {d}
                   /\ IF rd.err
                      THEN /\ res' = MarkSkipped(res, d)
                           /\ q' = q1
                           /\ pc' = "check"
                           /\ slowNow' = FALSE
                           /\ failed' = failed \cup {d}
                           /\ rdNow' = NoRead
                           /\ UNCHANGED << dir, dirCnt, bytesTotal, enq >>
                      ELSE LET m1 == ensure(res, d)
                               r  == ScanEntries(m1[d], d, rd.ents, 1, rd.slowAt, q1, <<>>)
                               fs == SetOwnTotal(r.fs)
                           IN  /\ res' = [m1 EXCEPT ![d] = fs]
                               /\ q' = r.q
                               /\ enq' = enq \o r.pushed
                               /\ slowNow' = WasSlow(rd.ents, rd.slowAt)
                               /\ rdNow' = [ents |-> rd.ents, cut |-> r.cut]
                               /\ UNCHANGED failed
                               /\ dir' = d
                               /\ dirCnt' = dirCnt + 1
                               /\ bytesTotal' = bytesTotal + fs.Size
                               /\ pc' = "send"
    /\ UNCHANGED << profile, root, excl, prog, progClosed, rpc, last, screen,
                    cancelled, leftByCancel, aggRuns, scanned, agg1 >>
    /\ UNCHANGED << sent, lastSeq, doneSent, idVars, outVars, fldVars, pureVars, sliceVars >>

\* the variant that reads every directory, excluded or not
BfsVisit_NoExclusion == pc = "visit" /\ VisitStep(FALSE)

BfsVisit == pc = "visit" /\ VisitStep(isExcluded(QFront(q), excl))

\* prog <- progressUpdate{dir, dirCnt, bytesTotal}: blocks while the buffer is full
BfsSend ==
    /\ pc = "send"
    /\ Len(prog) < ProgCap
    /\ prog' = Append(prog, [CurrentDir |-> dir, NumDirs |-> dirCnt,
                             BytesTotal |-> bytesTotal])
    /\ sent' = Append(sent, [CurrentDir |-> dir, NumDirs |-> dirCnt,
                             BytesTotal |-> bytesTotal])
    /\ rdNow' = NoRead
    /\ pc' = "check"
    /\ UNCHANGED << profile, root, excl, q, res, dir, dirCnt, bytesTotal,
                    progClosed, rpc, last, screen, cancelled, enq, visited,
                    readDirs, slowNow, lateDeq, leftByCancel, aggRuns, scanned,
                    agg1 >>
    /\ UNCHANGED << failed, lastSeq, doneSent, idVars, outVars, fldVars, pureVars, sliceVars >>

----------------------------------------------------------------------------
(* aggregateTotals *)

\* the variant that rolls up the own size of a child instead of its total
AggregateOne_AddsSize(m, p) ==
    LET fs  == m[p]
        par == Dir(p)
    IN  IF par = p THEN m
        ELSE LET m1 == ensure(m, par)
             IN  [m1 EXCEPT ![par].Total = @ + fs.Size]

\* the variant that moves the file count to the parent, leaving the child 0
AggregateOne_MovesCount(m, p) ==
    LET fs  == m[p]
        par == Dir(p)
    IN  IF par = p THEN m
        ELSE LET m1 == IF par \in DOMAIN m THEN m
                       ELSE [x \in DOMAIN m \cup {par} |->
                                IF x = par THEN NewFolder(par) ELSE m[x]]
                 ps == m1[par]
             IN  [m1 EXCEPT ![p].FileCount = 0, ![par] =
                    [ps EXCEPT
                       !.Total = @ + fs.Total,
                       !.FileCount = @ + fs.FileCount,
                       !.Oldest = IF ps.Oldest = 0
                                     \/ (fs.Oldest # 0 /\ fs.Oldest < ps.Oldest)
                                  THEN fs.Oldest ELSE @,
                       !.Newest = IF fs.Newest > ps.Newest THEN fs.Newest ELSE @,
                       !.FileTypes = [c \in Categories |-> ps.FileTypes[c] + fs.FileTypes[c]]]]

\* the variant that compares the Oldest times without testing for the zero time
AggregateOne_NaiveOldest(m, p) ==
    LET fs  == m[p]
        par == Dir(p)
    IN  IF par = p THEN m
        ELSE LET m1 == IF par \in DOMAIN m THEN m
                       ELSE [x \in DOMAIN m \cup {par} |->
                                IF x = par THEN NewFolder(par) ELSE m[x]]
                 ps == m1[par]
             IN  [m1 EXCEPT ![par] =
                    [ps EXCEPT
                       !.Total = @ + fs.Total,
                       !.FileCount = @ + fs.FileCount,
                       !.Oldest = IF fs.Oldest < ps.Oldest THEN fs.Oldest ELSE @,
                       !.Newest = IF fs.Newest > ps.Newest THEN fs.Newest ELSE @,
                       !.FileTypes = [c \in Categories |-> ps.FileTypes[c] + fs.FileTypes[c]]]]

\* the body of "for _, p := range paths" for one path
AggregateOne(m, p) ==
    LET fs  == m[p]
        par == Dir(p)
    IN  IF par = p THEN m
        ELSE LET m1 == IF par \in DOMAIN m THEN m
                       ELSE [x \in DOMAIN m \cup {par} |->
                                IF x = par THEN NewFolder(par) ELSE m[x]]
                 ps == m1[par]
             IN  [m1 EXCEPT ![par] =
                    [ps EXCEPT
                       !.Total = @ + fs.Total,
                       !.FileCount = @ + fs.FileCount,
                       !.Oldest = IF ps.Oldest = 0
                                     \/ (fs.Oldest # 0 /\ fs.Oldest < ps.Oldest)
                                  THEN fs.Oldest ELSE @,
                       !.Newest = IF fs.Newest > ps.Newest THEN fs.Newest ELSE @,
                       !.FileTypes = [c \in Categories |-> ps.FileTypes[c] + fs.FileTypes[c]]]]

RECURSIVE AggregateFrom(_, _, _)
AggregateFrom(m, paths, i) ==
    IF i > Len(paths) THEN m
    ELSE AggregateFrom(AggregateOne(m, paths[i]), paths, i + 1)

\* the sort key: strings.Count(p, string(os.PathSeparator))
SepCount(p) == Count(p, Sep)

\* the orders sort.Slice may leave the keys of m in: any order of the keys
\* with the separator counts non-increasing (the sort is not stable and the
\* map is ranged over in random order)
RECURSIVE Orders(_)
Orders(S) ==
    IF S = {} THEN { <<>> }
    ELSE LET top == {p \in S : \A x \in S : SepCount(x) <= SepCount(p)}
         IN  UNION { { <<p>> \o rest : rest \in Orders(S \ {p}) } : p \in top }

aggregateTotals(m, paths) == AggregateFrom(m, paths, 1)

----------------------------------------------------------------------------
(* main, from the start of the scan *)

\* the variant in which main goes on to <-done without closing prog
MainClose_NoClose ==
    /\ pc = "close"
    /\ pc' = "waitDone"
    /\ UNCHANGED << profile, root, excl, q, res, dir, dirCnt, bytesTotal, prog,
                    progClosed, rpc, last, screen, cancelled, enq, visited,
                    readDirs, slowNow, lateDeq, leftByCancel, aggRuns, scanned,
                    agg1 >>
    /\ UNCHANGED << failed, rdNow, sent, lastSeq, doneSent, idVars, outVars, fldVars, pureVars, sliceVars >>

\* close(prog)
MainClose ==
    /\ pc = "close"
    /\ progClosed' = TRUE
    /\ pc' = "waitDone"
    /\ UNCHANGED << profile, root, excl, q, res, dir, dirCnt, bytesTotal, prog,
                    rpc, last, screen, cancelled, enq, visited, readDirs,
                    slowNow, lateDeq, leftByCancel, aggRuns, scanned, agg1 >>
    /\ UNCHANGED << failed, rdNow, sent, lastSeq, doneSent, idVars, outVars, fldVars, pureVars, sliceVars >>

\* the variant in which main does not wait for the reporter
DoneHandoff_NoWait ==
    /\ pc = "waitDone"
    /\ pc' = "aggregate"
    /\ UNCHANGED << profile, root, excl, q, res, dir, dirCnt, bytesTotal, prog,
                    progClosed, rpc, last, screen, cancelled, enq, visited,
                    readDirs, slowNow, lateDeq, leftByCancel, aggRuns, scanned,
                    agg1 >>
    /\ UNCHANGED << failed, rdNow, sent, lastSeq, doneSent, idVars, outVars, fldVars, pureVars, sliceVars >>

\* <-done in main meets done <- struct{}{} in the reporter (unbuffered)
DoneHandoff ==
    /\ pc = "waitDone"
    /\ rpc = "sendDone"
    /\ pc' = "aggregate"
    /\ rpc' = "exited"
    /\ doneSent' = doneSent + 1
    /\ UNCHANGED << profile, root, excl, q, res, dir, dirCnt, bytesTotal, prog,
                    progClosed, last, screen, cancelled, enq, visited, readDirs,
                    slowNow, lateDeq, leftByCancel, aggRuns, scanned, agg1 >>
    /\ UNCHANGED << failed, rdNow, sent, lastSeq, idVars, outVars, fldVars, pureVars, sliceVars >>

\* aggregateTotals(m)
MainAggregate ==
    /\ pc = "aggregate"
    /\ \E paths \in Orders(DOMAIN res) :
           /\ res' = aggregateTotals(res, paths)
           /\ agg1' = aggregateTotals(res, paths)
    /\ aggRuns' = aggRuns + 1
    /\ pc' = "output"
    /\ UNCHANGED << profile, root, excl, q, dir, dirCnt, bytesTotal, prog,
                    progClosed, rpc, last, screen, cancelled, enq, visited,
                    readDirs, slowNow, lateDeq, leftByCancel, scanned >>
    /\ UNCHANGED << failed, rdNow, sent, lastSeq, doneSent, idVars, outVars, fldVars, pureVars, sliceVars >>

\* the values of --top and of the parsed --min-size tried
TopNs == (0 - 1)..MaxTop
MinSizes == {0, 250, 1000000}

\* the orders sort.Slice may leave the records of S in: any order with the
\* Totals non-increasing (the sort is not stable and the map is ranged over in
\* random order)
RECURSIVE ByTotal(_, _)
ByTotal(m, S) ==
    IF S = {} THEN { <<>> }
    ELSE LET top == {p \in S : \A x \in S : m[x].Total <= m[p].Total}
         IN  UNION { { <<m[p]>> \o rest : rest \in ByTotal(m, S \ {p}) } : p \in top }

\* the records main collects: those that are not the root and reach minBytes,
\* or every record that is not the root if none of them does
Selected(m, r, mb) ==
    LET big == {p \in DOMAIN m : m[p].Path # r /\ m[p].Total >= mb}
    IN  IF big # {} THEN big ELSE {p \in DOMAIN m : m[p].Path # r}

\* if len(fat) > *topN { fat = fat[:*topN] }
Truncate(s, n) == IF Len(s) > n THEN SubSeq(s, 1, n) ELSE s

\* the selection and the printing of the list; fat[:*topN] panics (slice
\* bounds out of range) when *topN is negative, before anything is printed
MainSelect ==
    /\ pc = "output"
    /\ \E n \in TopNs, mb \in MinSizes :
           /\ topN' = n
           /\ minBytes' = mb
           /\ IF n < 0
              THEN /\ fat' = <<>>
                   /\ pc' = "panic"
              ELSE /\ \E s \in ByTotal(res, Selected(res, root, mb)) :
                          fat' = Truncate(s, n)
                   /\ pc' = "printed"
    /\ UNCHANGED << profile, root, excl, q, res, dir, dirCnt, bytesTotal, prog,
                    progClosed, rpc, last, screen, cancelled, enq, visited,
                    readDirs, slowNow, lateDeq, leftByCancel, aggRuns, scanned,
                    agg1 >>
    /\ UNCHANGED << failed, rdNow, sent, lastSeq, doneSent, idVars, fldVars, pureVars, sliceVars >>

\* the interrupt goroutine: <-sig; cancel()
Interrupt ==
    /\ ~cancelled
    /\ pc \notin {"output", "printed", "panic"}
    /\ cancelled' = TRUE
    /\ UNCHANGED << profile, root, excl, pc, q, res, dir, dirCnt, bytesTotal,
                    prog, progClosed, rpc, last, screen, enq, visited, readDirs,
                    slowNow, lateDeq, leftByCancel, aggRuns, scanned, agg1 >>
    /\ UNCHANGED << failed, rdNow, sent, lastSeq, doneSent, idVars, outVars, fldVars, pureVars, sliceVars >>

----------------------------------------------------------------------------
(* progressReporter *)

\* the progress line after fmt.Printf("\r\033[K")
Blank == "blank"

\* case <-ctx.Done(): clear the line, then done <- struct{}{}
RepCtxDone ==
    /\ rpc = "select"
    /\ cancelled
    /\ screen' = Blank
    /\ rpc' = "sendDone"
    /\ UNCHANGED << profile, root, excl, pc, q, res, dir, dirCnt, bytesTotal,
                    prog, progClosed, last, cancelled, enq, visited, readDirs,
                    slowNow, lateDeq, leftByCancel, aggRuns, scanned, agg1 >>
    /\ UNCHANGED << failed, rdNow, sent, lastSeq, doneSent, idVars, outVars, fldVars, pureVars, sliceVars >>

\* the variant that takes the newest buffered event and leaves the older ones
RepRecv_TakesNewest ==
    /\ rpc = "select"
    /\ Len(prog) > 0
    /\ last' = prog[Len(prog)]
    /\ prog' = SubSeq(prog, 1, Len(prog) - 1)
    /\ lastSeq' = Append(lastSeq, prog[Len(prog)])
    /\ UNCHANGED << profile, root, excl, pc, q, res, dir, dirCnt, bytesTotal,
                    progClosed, rpc, screen, cancelled, enq, visited, readDirs,
                    slowNow, lateDeq, leftByCancel, aggRuns, scanned, agg1 >>
    /\ UNCHANGED << failed, rdNow, sent, doneSent, idVars, outVars, fldVars, pureVars, sliceVars >>

\* case u, ok := <-prog with ok: last = u
RepRecv ==
    /\ rpc = "select"
    /\ Len(prog) > 0
    /\ last' = Head(prog)
    /\ prog' = Tail(prog)
    /\ lastSeq' = Append(lastSeq, Head(prog))
    /\ UNCHANGED << profile, root, excl, pc, q, res, dir, dirCnt, bytesTotal,
                    progClosed, rpc, screen, cancelled, enq, visited, readDirs,
                    slowNow, lateDeq, leftByCancel, aggRuns, scanned, agg1 >>
    /\ UNCHANGED << failed, rdNow, sent, doneSent, idVars, outVars, fldVars, pureVars, sliceVars >>

\* case u, ok := <-prog with !ok (closed and drained)
RepClosed ==
    /\ rpc = "select"
    /\ Len(prog) = 0
    /\ progClosed
    /\ screen' = Blank
    /\ rpc' = "sendDone"
    /\ UNCHANGED << profile, root, excl, pc, q, res, dir, dirCnt, bytesTotal,
                    prog, progClosed, last, cancelled, enq, visited, readDirs,
                    slowNow, lateDeq, leftByCancel, aggRuns, scanned, agg1 >>
    /\ UNCHANGED << failed, rdNow, sent, lastSeq, doneSent, idVars, outVars, fldVars, pureVars, sliceVars >>

\* case <-tick.C: print last
RepTick ==
    /\ rpc = "select"
    /\ screen' = "progress"
    /\ UNCHANGED << profile, root, excl, pc, q, res, dir, dirCnt, bytesTotal,
                    prog, progClosed, rpc, last, cancelled, enq, visited,
                    readDirs, slowNow, lateDeq, leftByCancel, aggRuns, scanned,
                    agg1 >>
    /\ UNCHANGED << failed, rdNow, sent, lastSeq, doneSent, idVars, outVars, fldVars, pureVars, sliceVars >>

----------------------------------------------------------------------------
(* Specifications *)

EmptyMap == [x \in {} |-> NewFolder(x)]

\* the state when main starts the scan: the reporter goroutine is started, the
\* queue holds the root
ScanStart ==
    /\ pc = "check"
    /\ q = PushBack(<<>>, root)
    /\ res = EmptyMap
    /\ dir = <<>>
    /\ dirCnt = 0
    /\ bytesTotal = 0
    /\ prog = <<>>
    /\ progClosed = FALSE
    /\ rpc = "select"
    /\ last = ZeroUpdate
    /\ screen = Blank
    /\ cancelled = FALSE
    /\ enq = <<root>>
    /\ visited = <<>>
    /\ readDirs = {}
    /\ slowNow = FALSE
    /\ lateDeq = 0
    /\ leftByCancel = FALSE
    /\ aggRuns = 0
    /\ scanned = EmptyMap
    /\ agg1 = EmptyMap
    /\ failed = {}
    /\ rdNow = NoRead
    /\ sent = <<>>
    /\ lastSeq = <<>>
    /\ doneSent = 0
    /\ topN = 0
    /\ minBytes = 0
    /\ fat = <<>>

Start ==
    /\ root \in Roots
    /\ excl \in Excludes(root)
    /\ ScanStart

Next ==
    \/ BfsCheck
    \/ BfsVisit
    \/ BfsSend
    \/ MainClose
    \/ DoneHandoff
    \/ MainAggregate
    \/ Interrupt
    \/ RepCtxDone
    \/ RepRecv
    \/ RepClosed
    \/ RepTick

\* the identity-checking scan is not running
IdOff ==
    /\ goos = "linux"
    /\ netMap = {}
    /\ pc3 = "off"
    /\ idQueue = <<>>
    /\ resultsMap = EmptyMap
    /\ visitedDevIno = {}
    /\ dirCount = 0
    /\ totalBytes = 0
    /\ outMsg = ZeroProgress
    /\ toPush = <<>>
    /\ progressChan = <<>>
    /\ chanClosed = FALSE
    /\ rpc3 = "off"
    /\ lastMsg = ZeroProgress
    /\ screen3 = Blank
    /\ dequeued = <<>>
    /\ pushedAll = <<>>
    /\ wasRead = {}
    /\ keyOf = EmptyMap
    /\ realSize = EmptyMap

\* the zero value of FolderSize in the single-pass program
NoResult == [Path |-> <<>>, Size |-> 0, Skipped |-> FALSE]

\* the progress line of the single-pass program after fmt.Printf("\r\033[K")
BlankLine == [count |-> 0, current |-> <<>>]

\* the single-pass program is not running
FldOff ==
    /\ mounts = {}
    /\ bpc = "off"
    /\ bfsQueue = <<>>
    /\ dirChan = <<>>
    /\ dirChanClosed = FALSE
    /\ resultChan = <<>>
    /\ resultChanClosed = FALSE
    /\ pending = NoResult
    /\ kids = <<>>
    /\ gpc = "off"
    /\ scannedCount = 0
    /\ progressLine = BlankLine
    /\ mpc = "off"
    /\ allResults = <<>>
    /\ printed = <<>>
    /\ deqF = <<>>
    /\ sentF = <<>>
    /\ readF = {}
    /\ slowF = {}
    /\ partialF = << >>
    /\ pushedF = <<>>

\* no call of the pure functions is under way
PureOff ==
    /\ argName = <<>>
    /\ argPath = <<>>
    /\ argRules = <<>>
    /\ called = {}
    /\ retCategory = ""
    /\ retExcluded = FALSE
    /\ retExcludedBase = FALSE

\* the slice-returning program is not running
SliceOff ==
    /\ excludeFlag = <<>>
    /\ spc = "off"
    /\ sQueue = <<>>
    /\ sResults = EmptyMap
    /\ sDirCount = 0
    /\ sTotalBytes = 0
    /\ sUpdate = ZeroUpdate
    /\ sKids = <<>>
    /\ progChan = <<>>
    /\ progChanClosed = FALSE
    /\ sCancelled = FALSE
    /\ srpc = "off"
    /\ sLast = ZeroUpdate
    /\ sScreen = Blank
    /\ folders = <<>>
    /\ sSent = <<>>
    /\ sDone = <<>>
    /\ sReadTried = {}
    /\ sBroke = FALSE

OthersOff == PureOff /\ SliceOff

\* small trees with files, exclusions, read failures and slow directories
Init == profile = "tree" /\ Start /\ IdOff /\ FldOff /\ OthersOff

Spec == Init /\ [][Next]_vars

\* the reporter's select takes a case that stays ready: Go chooses among the
\* ready cases at random, and the ticker is ready only now and then
ReporterFairness ==
    /\ WF_vars(RepCtxDone)
    /\ WF_vars(RepRecv)
    /\ WF_vars(RepClosed)

\* chains of nested directories, long enough to fill the progress channel
InitChain == profile = "chain" /\ Start /\ IdOff /\ FldOff /\ OthersOff

\* a root that the exclusion policy may reject, with b and c below it, files
\* of two types and two modification times
MixedRoots == { <<Sep>> \o Str_a, <<Sep>> \o Str_tmp }
MixedExcludes == { << <<Sep>> \o Str_a >>, << <<Sep>> \o Str_a \o <<Sep>> \o Str_x >> }
InitMixed ==
    /\ profile = "mixed"
    /\ root \in MixedRoots
    /\ excl \in MixedExcludes
    /\ ScanStart
    /\ IdOff /\ FldOff /\ OthersOff

SpecMixed == InitMixed /\ [][Next]_vars

SpecChain == InitChain /\ [][Next]_vars

\* a root with the sub-directories slow and z, where slow holds up to three
\* files and a sub-directory and takes long to enumerate
InitSlow == profile = "slow" /\ Start /\ IdOff /\ FldOff /\ OthersOff

SpecSlow == InitSlow /\ [][Next]_vars

SpecFair == InitSlow /\ [][Next]_vars /\ ReporterFairness

\* aggregateTotals is a loop over a finite slice: main does not stay in it
\* for ever.  MainAggregate is enabled exactly when pc = "aggregate", so this
\* is WF_vars(MainAggregate).
AggregationEnds == []<>(pc # "aggregate")

\* the main goroutine is scheduled whenever it can take its next step
MainFairness ==
    /\ WF_vars(BfsCheck)
    /\ WF_vars(BfsVisit)
    /\ WF_vars(BfsSend)
    /\ WF_vars(MainClose)
    /\ WF_vars(DoneHandoff)
    /\ AggregationEnds

\* chains of nested directories with both goroutines scheduled fairly
SpecLive == InitChain /\ [][Next]_vars /\ MainFairness /\ ReporterFairness

\* a second call of aggregateTotals on the aggregated map (main calls it once)
AggregateAgain ==
    /\ pc = "output"
    /\ aggRuns = 1
    /\ \E paths \in Orders(DOMAIN res) : res' = aggregateTotals(res, paths)
    /\ aggRuns' = 2
    /\ UNCHANGED << profile, root, excl, pc, q, dir, dirCnt, bytesTotal, prog,
                    progClosed, rpc, last, screen, cancelled, enq, visited,
                    readDirs, slowNow, lateDeq, leftByCancel, scanned, agg1 >>
    /\ UNCHANGED << failed, rdNow, sent, lastSeq, doneSent, idVars, outVars, fldVars, pureVars, sliceVars >>

NextTwice == Next \/ AggregateAgain

SpecTwice == Init /\ [][NextTwice]_vars

\* main to its end: the scan, the aggregation, the selection and the printing
NextOutput == Next \/ MainSelect

SpecOutput == Init /\ [][NextOutput]_vars

----------------------------------------------------------------------------
(* The identity-checking scan: bfsComputeSizes with (device, inode) keys *)

\* the variant that rejects no path
isExcludedBase_Never(p) == FALSE

\* isExcluded of the identity-checking program: the base name alone
isExcludedBase(p) == Base(p) \in BuiltinExcluded

\* netMap as main gets it from detectNetworkFileSystems: nil unless the root
\* is "/" on a Unix-like system; then the network mount points of the host
NetMaps(os, r) ==
    IF os = "linux" /\ r = <<Sep>> THEN { {}, {Join(r, Str_c)} } ELSE { {} }

\* &FolderSize{Path: path}
NewFolderSize(p) == [Path |-> p, Size |-> 0, Skipped |-> FALSE, Duplicate |-> FALSE]

ensureFolderSize(m, p) ==
    IF p \in DOMAIN m THEN m
    ELSE [x \in DOMAIN m \cup {p} |-> IF x = p THEN NewFolderSize(p) ELSE m[x]]

\* the variant that reports a key on every platform and for every path
getDevInode_AlwaysKey(os, seen) ==
    {[ok |-> TRUE, key |-> k] :
        k \in (seen \cup {Cardinality(seen) + 1}) \cap (1..MaxKeys)}

\* what getDevInode may return for a path: no key on Windows or when Lstat
\* fails; otherwise a key, which is one already in seen or the next new one
\* (keys are opaque, so new keys are numbered in the order they appear)
getDevInode(os, seen) ==
    {[ok |-> FALSE, key |-> 0]}
    \cup (IF os = "windows" THEN {}
          ELSE {[ok |-> TRUE, key |-> k] :
                   k \in (seen \cup {Cardinality(seen) + 1}) \cap (1..MaxKeys)})

\* the variant that finds no key in the visited set
KeyVisited_Never(seen, pr) == FALSE

\* canCheckDevIno && visitedDevIno[devInoVal]
KeyVisited(seen, pr) == pr.ok /\ pr.key \in seen

\* the variant that records no key
MarkVisited_Forgets(seen, pr) == seen

\* visitedDevIno[devInoVal] = true, when the key could be read
MarkVisited(seen, pr) == IF pr.ok THEN seen \cup {pr.key} ELSE seen

\* for _, fi := range entries { if time.Since(startTime) > slowThreshold {
\* skipDir = true; break }; if !fi.IsDir() { localSize += fi.Size() } }
\* with slowAt the first entry before which the time check holds
LocalScan(ents, slowAt) ==
    [localSize |-> FileBytesBefore(ents, slowAt),
     skipDir   |-> slowAt <= Len(ents)]

\* the variant that records the key only once the directory was read to its
\* end
VisitedAfterRead_IfScanned(seen, pr, sc) ==
    IF sc.skipDir THEN seen ELSE MarkVisited(seen, pr)

\* the visited set after the iteration of a directory with result sc: the
\* key is recorded before ioutil.ReadDir is called, whatever the read gives
VisitedAfterRead(seen, pr, sc) == MarkVisited(seen, pr)

\* the variant that marks a directory it has read as a duplicate as well
RecordScan_AlsoDuplicate(m, p, sc) ==
    [ensureFolderSize(m, p) EXCEPT ![p].Size = sc.localSize,
                                   ![p].Skipped = sc.skipDir,
                                   ![p].Duplicate = sc.skipDir]

\* fsEntry := ensureFolderSize(resultsMap, dirPath); fsEntry.Size = localSize;
\* fsEntry.Skipped = skipDir
RecordScan(m, p, sc) ==
    [ensureFolderSize(m, p) EXCEPT ![p].Size = sc.localSize,
                                   ![p].Skipped = sc.skipDir]

\* the sub-directories of ents as paths below d, in listing order
RECURSIVE SubPaths(_, _, _)
SubPaths(d, ents, i) ==
    IF i > Len(ents) THEN <<>>
    ELSE (IF ents[i].isDir THEN << Join(d, ents[i].name) >> ELSE <<>>)
         \o SubPaths(d, ents, i + 1)

\* if _, ok := resultsMap[subPath]; !ok { resultsMap[subPath] = ... } for
\* every path of subs
RECURSIVE EnsureAll(_, _, _)
EnsureAll(m, subs, i) ==
    IF i > Len(subs) THEN m
    ELSE EnsureAll(ensureFolderSize(m, subs[i]), subs, i + 1)

DupSuffix == <<" ", "(", "d", "u", "p", "l", "i", "c", "a", "t", "e", ")">>

\* one iteration of the loop from queue.Front() up to its progress send, or
\* to its continue for a network mount or an excluded directory
IdVisit ==
    /\ pc3 = "loop"
    /\ Len(idQueue) > 0
    /\ LET dirPath == QFront(idQueue)
       IN  /\ idQueue' = QRemove(idQueue)
           /\ dequeued' = Append(dequeued, dirPath)
           /\ IF dirPath \in netMap \/ isExcludedBase(dirPath)
              THEN /\ resultsMap' =
                          [ensureFolderSize(resultsMap, dirPath) EXCEPT ![dirPath].Skipped = TRUE]
                   /\ pc3' = "loop"
                   /\ UNCHANGED << visitedDevIno, dirCount, totalBytes, outMsg,
                                   toPush, wasRead, keyOf, realSize >>
              ELSE \E pr \in getDevInode(goos, visitedDevIno) :
                   /\ keyOf' = [x \in DOMAIN keyOf \cup {dirPath} |->
                                   IF x = dirPath THEN pr.key ELSE keyOf[x]]
                   /\ IF KeyVisited(visitedDevIno, pr)
                      THEN /\ resultsMap' =
                                  [ensureFolderSize(resultsMap, dirPath)
                                      EXCEPT ![dirPath].Duplicate = TRUE]
                           /\ dirCount' = dirCount + 1
                           /\ outMsg' = [CurrentDir   |-> dirPath \o DupSuffix,
                                         DirsCount    |-> dirCount + 1,
                                         BytesSoFar   |-> totalBytes,
                                         DuplicateHit |-> TRUE]
                           /\ toPush' = <<>>
                           /\ pc3' = "send"
                           /\ UNCHANGED << visitedDevIno, totalBytes, wasRead, realSize >>
                      ELSE \E rd \in ReadOutcomes(profile, root, dirPath, Len(pushedAll)) :
                           LET sc == IF rd.err THEN [localSize |-> 0, skipDir |-> TRUE]
                                     ELSE LocalScan(rd.ents, rd.slowAt)
                               tb == IF sc.skipDir THEN totalBytes
                                     ELSE totalBytes + sc.localSize
                           IN  /\ visitedDevIno' = VisitedAfterRead(visitedDevIno, pr, sc)
                               /\ wasRead' = wasRead \cup {dirPath}
                               /\ realSize' =
                                      [x \in DOMAIN realSize \cup {dirPath} |->
                                          IF x = dirPath
                                          THEN FileBytes(rd.ents, Len(rd.ents))
                                          ELSE realSize[x]]
                               /\ resultsMap' = RecordScan(resultsMap, dirPath, sc)
                               /\ dirCount' = dirCount + 1
                               /\ totalBytes' = tb
                               /\ outMsg' = [CurrentDir   |-> dirPath,
                                             DirsCount    |-> dirCount + 1,
                                             BytesSoFar   |-> tb,
                                             DuplicateHit |-> FALSE]
                               /\ toPush' = IF ~sc.skipDir /\ ~rd.err
                                            THEN SubPaths(dirPath, rd.ents, 1)
                                            ELSE <<>>
                               /\ pc3' = "send"
    /\ UNCHANGED << goos, netMap, progressChan, chanClosed, rpc3, lastMsg,
                    screen3, pushedAll >>
    /\ UNCHANGED << profile, root, scanVars, fldVars, pureVars, sliceVars >>

\* progressChan <- scanProgress{...} (blocks while the buffer is full), then
\* the rest of the iteration: the sub-directories get a record and are pushed
IdSend ==
    /\ pc3 = "send"
    /\ Len(progressChan) < IdChanCap
    /\ progressChan' = Append(progressChan, outMsg)
    /\ resultsMap' = EnsureAll(resultsMap, toPush, 1)
    /\ idQueue' = idQueue \o toPush
    /\ pushedAll' = pushedAll \o toPush
    /\ toPush' = <<>>
    /\ pc3' = "loop"
    /\ UNCHANGED << goos, netMap, visitedDevIno, dirCount, totalBytes, outMsg,
                    chanClosed, rpc3, lastMsg, screen3, dequeued, wasRead,
                    keyOf, realSize >>
    /\ UNCHANGED << profile, root, scanVars, fldVars, pureVars, sliceVars >>

\* queue.Len() == 0: bfsComputeSizes returns (the slice it returns holds the
\* records of resultsMap)
IdReturn ==
    /\ pc3 = "loop"
    /\ Len(idQueue) = 0
    /\ pc3' = "close"
    /\ UNCHANGED << goos, netMap, idQueue, resultsMap, visitedDevIno, dirCount,
                    totalBytes, outMsg, toPush, progressChan, chanClosed, rpc3,
                    lastMsg, screen3, dequeued, pushedAll, wasRead, keyOf,
                    realSize >>
    /\ UNCHANGED << profile, root, scanVars, fldVars, pureVars, sliceVars >>

\* close(progressChan)
IdClose ==
    /\ pc3 = "close"
    /\ chanClosed' = TRUE
    /\ pc3' = "waitDone"
    /\ UNCHANGED << goos, netMap, idQueue, resultsMap, visitedDevIno, dirCount,
                    totalBytes, outMsg, toPush, progressChan, rpc3, lastMsg,
                    screen3, dequeued, pushedAll, wasRead, keyOf, realSize >>
    /\ UNCHANGED << profile, root, scanVars, fldVars, pureVars, sliceVars >>

\* <-doneChan in main meets doneChan <- true in the reporter
IdDone ==
    /\ pc3 = "waitDone"
    /\ rpc3 = "sendDone"
    /\ pc3' = "output"
    /\ rpc3' = "exited"
    /\ UNCHANGED << goos, netMap, idQueue, resultsMap, visitedDevIno, dirCount,
                    totalBytes, outMsg, toPush, progressChan, chanClosed,
                    lastMsg, screen3, dequeued, pushedAll, wasRead, keyOf,
                    realSize >>
    /\ UNCHANGED << profile, root, scanVars, fldVars, pureVars, sliceVars >>

\* progressReporter: case msg, ok := <-progressChan with ok
IdRepRecv ==
    /\ rpc3 = "select"
    /\ Len(progressChan) > 0
    /\ lastMsg' = Head(progressChan)
    /\ progressChan' = Tail(progressChan)
    /\ UNCHANGED << goos, netMap, pc3, idQueue, resultsMap, visitedDevIno,
                    dirCount, totalBytes, outMsg, toPush, chanClosed, rpc3,
                    screen3, dequeued, pushedAll, wasRead, keyOf, realSize >>
    /\ UNCHANGED << profile, root, scanVars, fldVars, pureVars, sliceVars >>

\* progressReporter: case msg, ok := <-progressChan with !ok
IdRepClosed ==
    /\ rpc3 = "select"
    /\ Len(progressChan) = 0
    /\ chanClosed
    /\ screen3' = Blank
    /\ rpc3' = "sendDone"
    /\ UNCHANGED << goos, netMap, pc3, idQueue, resultsMap, visitedDevIno,
                    dirCount, totalBytes, outMsg, toPush, progressChan,
                    chanClosed, lastMsg, dequeued, pushedAll, wasRead, keyOf,
                    realSize >>
    /\ UNCHANGED << profile, root, scanVars, fldVars, pureVars, sliceVars >>

\* progressReporter: case <-ticker.C: print lastMsg
IdRepTick ==
    /\ rpc3 = "select"
    /\ screen3' = "progress"
    /\ UNCHANGED << goos, netMap, pc3, idQueue, resultsMap, visitedDevIno,
                    dirCount, totalBytes, outMsg, toPush, progressChan,
                    chanClosed, rpc3, lastMsg, dequeued, pushedAll, wasRead,
                    keyOf, realSize >>
    /\ UNCHANGED << profile, root, scanVars, fldVars, pureVars, sliceVars >>

\* the aggregating program is not running
ScanOff ==
    /\ excl = <<>>
    /\ pc = "off"
    /\ q = <<>>
    /\ res = EmptyMap
    /\ dir = <<>>
    /\ dirCnt = 0
    /\ bytesTotal = 0
    /\ prog = <<>>
    /\ progClosed = FALSE
    /\ rpc = "off"
    /\ last = ZeroUpdate
    /\ screen = Blank
    /\ cancelled = FALSE
    /\ enq = <<>>
    /\ visited = <<>>
    /\ readDirs = {}
    /\ slowNow = FALSE
    /\ lateDeq = 0
    /\ leftByCancel = FALSE
    /\ aggRuns = 0
    /\ scanned = EmptyMap
    /\ agg1 = EmptyMap
    /\ failed = {}
    /\ rdNow = NoRead
    /\ sent = <<>>
    /\ lastSeq = <<>>
    /\ doneSent = 0
    /\ topN = 0
    /\ minBytes = 0
    /\ fat = <<>>

\* the state when main of the identity-checking program calls bfsComputeSizes:
\* the reporter goroutine is started, the queue holds the root, which has its
\* record
InitIdent ==
    /\ profile = "ident"
    /\ root \in Roots
    /\ goos \in {"linux", "windows"}
    /\ netMap \in NetMaps(goos, root)
    /\ pc3 = "loop"
    /\ idQueue = PushBack(<<>>, root)
    /\ resultsMap = ensureFolderSize(EmptyMap, root)
    /\ visitedDevIno = {}
    /\ dirCount = 0
    /\ totalBytes = 0
    /\ outMsg = ZeroProgress
    /\ toPush = <<>>
    /\ progressChan = <<>>
    /\ chanClosed = FALSE
    /\ rpc3 = "select"
    /\ lastMsg = ZeroProgress
    /\ screen3 = Blank
    /\ dequeued = <<>>
    /\ pushedAll = <<root>>
    /\ wasRead = {}
    /\ keyOf = EmptyMap
    /\ realSize = EmptyMap
    /\ ScanOff
    /\ FldOff
    /\ OthersOff

NextIdent ==
    \/ IdVisit
    \/ IdSend
    \/ IdReturn
    \/ IdClose
    \/ IdDone
    \/ IdRepRecv
    \/ IdRepClosed
    \/ IdRepTick

SpecIdent == InitIdent /\ [][NextIdent]_vars

----------------------------------------------------------------------------
(* The single-pass program (find-large-dirs.go): bfsComputeSizes in a
   goroutine of its own, the progress goroutine, and main collecting the
   results.  Its isExcluded is the base-name test isExcludedBase. *)

\* isRootPath on a Unix-like system
isRootPath(p) == p = <<Sep>>

\* the key sets of the netMap detectNetworkFileSystems may return: empty for a
\* root that is not the filesystem root; for "/" the network mount points of
\* the host (none, or /b)
detectNetworkFileSystems(rootPath) ==
    IF isRootPath(rootPath) THEN { {}, {Join(rootPath, Str_b)} } ELSE { {} }

\* the variant that takes no path for a network mount
IsNetworkMount_Never(m, dirPath) == FALSE

\* if _, ok := netMap[dirPath]; ok
IsNetworkMount(m, dirPath) == dirPath \in m

\* the variant of the notification that waits for room in dirChan
NotifyReady_WaitsForRoom(ch) == Len(ch) < DirChanCap

\* select { case dirChan <- dirPath: default: } can always proceed
NotifyReady(ch) == TRUE

\* the channel after the select: the value is buffered if there is room
\* (a waiting receiver takes it from there) and dropped otherwise
TrySend(ch, v) == IF Len(ch) < DirChanCap THEN Append(ch, v) ELSE ch

\* FolderSize{Path: ..., Size: ..., Skipped: ...}
FolderResult(p, size, skipped) == [Path |-> p, Size |-> size, Skipped |-> skipped]

\* the entry loop: before entry i the time is checked (it exceeds
\* slowThreshold there iff it did after entry i - 1, or when ReadDir returned
\* for i = 1), then a regular file is added to localSize
RECURSIVE SumEntries(_, _, _, _)
SumEntries(ents, i, slowAt, acc) ==
    IF i > Len(ents) THEN [localSize |-> acc, skipDir |-> FALSE]
    ELSE IF Elapsed(i - 1, slowAt) THEN [localSize |-> acc, skipDir |-> TRUE]
    ELSE SumEntries(ents, i + 1, slowAt,
                    acc + (IF ents[i].isDir THEN 0 ELSE ents[i].size))

\* the file bytes summed when the time first exceeded slowThreshold
SummedSoFar(ents, slowAt) ==
    FileBytes(ents, IF slowAt > Len(ents) THEN Len(ents) ELSE slowAt)

\* shortenPath
shortenPath(path, maxLen) ==
    IF Len(path) <= maxLen THEN path
    ELSE SubSeq(path, 1, maxLen - 3) \o <<".", ".", ".">>

SkippedSuffix == <<" ", "(", "s", "k", "i", "p", "p", "e", "d", ")">>

\* the values of --top tried
TopFlags == {0 - 1, 0, 1}

\* the first n elements of the orders sort.Slice may leave the results of the
\* index set I in: Sizes non-increasing, ties in any order
RECURSIVE TopBySize(_, _, _)
TopBySize(rs, I, n) ==
    IF I = {} \/ n <= 0 THEN { <<>> }
    ELSE LET top == {i \in I : \A j \in I : rs[j].Size <= rs[i].Size}
         IN  UNION { { <<rs[i]>> \o rest : rest \in TopBySize(rs, I \ {i}, n - 1) }
                     : i \in top }

\* a row of the table: the size and the path, marked if skipped
Row(fs) ==
    [size |-> fs.Size,
     dp   |-> IF fs.Skipped THEN fs.Path \o SkippedSuffix ELSE fs.Path]

\* one iteration of the loop of bfsComputeSizes from queue.Front() up to the
\* send on resultChan
FldVisit ==
    /\ bpc = "loop"
    /\ bfsQueue # <<>>
    /\ NotifyReady(dirChan)
    /\ LET dirPath == QFront(bfsQueue)
       IN  /\ bfsQueue' = QRemove(bfsQueue)
           /\ deqF' = Append(deqF, dirPath)
           /\ dirChan' = TrySend(dirChan, dirPath)
           /\ IF IsNetworkMount(mounts, dirPath) \/ isExcludedBase(dirPath)
              THEN /\ pending' = FolderResult(dirPath, 0, TRUE)
                   /\ kids' = <<>>
                   /\ UNCHANGED << readF, slowF, partialF >>
              ELSE \E rd \in ReadOutcomes(profile, root, dirPath, Len(pushedF)) :
                   /\ readF' = readF \cup {dirPath}
                   /\ IF rd.err
                      THEN /\ pending' = FolderResult(dirPath, 0, TRUE)
                           /\ kids' = <<>>
                           /\ UNCHANGED << slowF, partialF >>
                      ELSE LET sc == SumEntries(rd.ents, 1, rd.slowAt, 0)
                           IN  /\ pending' = FolderResult(dirPath, sc.localSize, sc.skipDir)
                               /\ kids' = IF sc.skipDir THEN <<>>
                                          ELSE SubPaths(dirPath, rd.ents, 1)
                               /\ slowF' = IF WasSlow(rd.ents, rd.slowAt)
                                           THEN slowF \cup {dirPath} ELSE slowF
                               /\ partialF' = (dirPath :> SummedSoFar(rd.ents, rd.slowAt))
                                              @@ partialF
    /\ bpc' = "send"
    /\ UNCHANGED << mounts, dirChanClosed, resultChan, resultChanClosed, gpc,
                    scannedCount, progressLine, mpc, allResults, printed,
                    sentF, pushedF >>
    /\ UNCHANGED << profile, root, scanVars, idVars, pureVars, sliceVars >>

\* resultChan <- FolderSize{...}, which waits while the buffer is full, and
\* the rest of the iteration: the sub-directories are pushed
FldSend ==
    /\ bpc = "send"
    /\ ~resultChanClosed
    /\ Len(resultChan) < ResultChanCap
    /\ resultChan' = Append(resultChan, pending)
    /\ sentF' = Append(sentF, pending)
    /\ bfsQueue' = bfsQueue \o kids
    /\ pushedF' = pushedF \o kids
    /\ kids' = <<>>
    /\ pending' = NoResult
    /\ bpc' = "loop"
    /\ UNCHANGED << mounts, dirChan, dirChanClosed, resultChanClosed, gpc,
                    scannedCount, progressLine, mpc, allResults, printed,
                    deqF, readF, slowF, partialF >>
    /\ UNCHANGED << profile, root, scanVars, idVars, pureVars, sliceVars >>

\* queue.Len() > 0 fails: bfsComputeSizes returns
FldReturn ==
    /\ bpc = "loop"
    /\ bfsQueue = <<>>
    /\ bpc' = "closeDir"
    /\ UNCHANGED << mounts, bfsQueue, dirChan, dirChanClosed, resultChan,
                    resultChanClosed, pending, kids, gpc, scannedCount,
                    progressLine, mpc, allResults, printed, deqF, sentF,
                    readF, slowF, partialF, pushedF >>
    /\ UNCHANGED << profile, root, scanVars, idVars, pureVars, sliceVars >>

\* the variant that leaves dirChan open
FldCloseDir_NoClose ==
    /\ bpc = "closeDir"
    /\ bpc' = "closeRes"
    /\ UNCHANGED << mounts, bfsQueue, dirChan, dirChanClosed, resultChan,
                    resultChanClosed, pending, kids, gpc, scannedCount,
                    progressLine, mpc, allResults, printed, deqF, sentF,
                    readF, slowF, partialF, pushedF >>
    /\ UNCHANGED << profile, root, scanVars, idVars, pureVars, sliceVars >>

\* close(dirChan)
FldCloseDir ==
    /\ bpc = "closeDir"
    /\ dirChanClosed' = TRUE
    /\ bpc' = "closeRes"
    /\ UNCHANGED << mounts, bfsQueue, dirChan, resultChan, resultChanClosed,
                    pending, kids, gpc, scannedCount, progressLine, mpc,
                    allResults, printed, deqF, sentF, readF, slowF, partialF,
                    pushedF >>
    /\ UNCHANGED << profile, root, scanVars, idVars, pureVars, sliceVars >>

\* close(resultChan); the goroutine ends
FldCloseRes ==
    /\ bpc = "closeRes"
    /\ resultChanClosed' = TRUE
    /\ bpc' = "exited"
    /\ UNCHANGED << mounts, bfsQueue, dirChan, dirChanClosed, resultChan,
                    pending, kids, gpc, scannedCount, progressLine, mpc,
                    allResults, printed, deqF, sentF, readF, slowF, partialF,
                    pushedF >>
    /\ UNCHANGED << profile, root, scanVars, idVars, pureVars, sliceVars >>

\* progress goroutine: dirPath, ok := <-dirChan with ok; the counter and the line
FldProgRecv ==
    /\ gpc = "recv"
    /\ dirChan # <<>>
    /\ dirChan' = Tail(dirChan)
    /\ scannedCount' = scannedCount + 1
    /\ progressLine' = [count |-> scannedCount + 1,
                        current |-> shortenPath(Head(dirChan), 60)]
    /\ UNCHANGED << mounts, bpc, bfsQueue, dirChanClosed, resultChan,
                    resultChanClosed, pending, kids, gpc, mpc, allResults,
                    printed, deqF, sentF, readF, slowF, partialF, pushedF >>
    /\ UNCHANGED << profile, root, scanVars, idVars, pureVars, sliceVars >>

\* progress goroutine: the receive yields !ok on the closed, drained channel
FldProgClosed ==
    /\ gpc = "recv"
    /\ dirChan = <<>>
    /\ dirChanClosed
    /\ gpc' = "sendDone"
    /\ UNCHANGED << mounts, bpc, bfsQueue, dirChan, dirChanClosed, resultChan,
                    resultChanClosed, pending, kids, scannedCount, progressLine,
                    mpc, allResults, printed, deqF, sentF, readF, slowF,
                    partialF, pushedF >>
    /\ UNCHANGED << profile, root, scanVars, idVars, pureVars, sliceVars >>

\* the variant in which main appends nothing for a result it receives
FldCollect_Drops ==
    /\ mpc = "collect"
    /\ resultChan # <<>>
    /\ resultChan' = Tail(resultChan)
    /\ UNCHANGED << mounts, bpc, bfsQueue, dirChan, dirChanClosed,
                    resultChanClosed, pending, kids, gpc, scannedCount,
                    progressLine, mpc, allResults, printed, deqF, sentF, readF,
                    slowF, partialF, pushedF >>
    /\ UNCHANGED << profile, root, scanVars, idVars, pureVars, sliceVars >>

\* main: for fs := range resultChan { allResults = append(allResults, fs) }
FldCollect ==
    /\ mpc = "collect"
    /\ resultChan # <<>>
    /\ resultChan' = Tail(resultChan)
    /\ allResults' = Append(allResults, Head(resultChan))
    /\ UNCHANGED << mounts, bpc, bfsQueue, dirChan, dirChanClosed,
                    resultChanClosed, pending, kids, gpc, scannedCount,
                    progressLine, mpc, printed, deqF, sentF, readF, slowF,
                    partialF, pushedF >>
    /\ UNCHANGED << profile, root, scanVars, idVars, pureVars, sliceVars >>

\* main: the range loop ends on the closed, drained channel
FldCollectEnd ==
    /\ mpc = "collect"
    /\ resultChan = <<>>
    /\ resultChanClosed
    /\ mpc' = "waitDone"
    /\ UNCHANGED << mounts, bpc, bfsQueue, dirChan, dirChanClosed, resultChan,
                    resultChanClosed, pending, kids, gpc, scannedCount,
                    progressLine, allResults, printed, deqF, sentF, readF,
                    slowF, partialF, pushedF >>
    /\ UNCHANGED << profile, root, scanVars, idVars, pureVars, sliceVars >>

\* <-doneChan in main meets doneChan <- true in the progress goroutine
\* (unbuffered); main clears the progress line
FldDone ==
    /\ mpc = "waitDone"
    /\ gpc = "sendDone"
    /\ mpc' = "sort"
    /\ gpc' = "exited"
    /\ progressLine' = BlankLine
    /\ UNCHANGED << mounts, bpc, bfsQueue, dirChan, dirChanClosed, resultChan,
                    resultChanClosed, pending, kids, scannedCount, allResults,
                    printed, deqF, sentF, readF, slowF, partialF, pushedF >>
    /\ UNCHANGED << profile, root, scanVars, idVars, pureVars, sliceVars >>

\* main: sort.Slice(allResults, ...) and the table of the first *topFlag rows
FldPrint ==
    /\ mpc = "sort"
    /\ \E top \in TopFlags :
         \E s \in TopBySize(allResults, 1..Len(allResults), top) :
             printed' = [i \in 1..Len(s) |-> Row(s[i])]
    /\ mpc' = "printed"
    /\ UNCHANGED << mounts, bpc, bfsQueue, dirChan, dirChanClosed, resultChan,
                    resultChanClosed, pending, kids, gpc, scannedCount,
                    progressLine, allResults, deqF, sentF, readF, slowF,
                    partialF, pushedF >>
    /\ UNCHANGED << profile, root, scanVars, idVars, pureVars, sliceVars >>

\* the state when main has started both goroutines: the queue holds the root
FldBegin ==
    /\ mounts \in detectNetworkFileSystems(root)
    /\ bpc = "loop"
    /\ bfsQueue = PushBack(<<>>, root)
    /\ dirChan = <<>>
    /\ dirChanClosed = FALSE
    /\ resultChan = <<>>
    /\ resultChanClosed = FALSE
    /\ pending = NoResult
    /\ kids = <<>>
    /\ gpc = "recv"
    /\ scannedCount = 0
    /\ progressLine = BlankLine
    /\ mpc = "collect"
    /\ allResults = <<>>
    /\ printed = <<>>
    /\ deqF = <<>>
    /\ sentF = <<>>
    /\ readF = {}
    /\ slowF = {}
    /\ partialF = << >>
    /\ pushedF = <<root>>

FldStart == root \in Roots /\ FldBegin

\* a root with b (a network mount when the root is "/") and tmp, c below b,
\* files, read failures and slow enumerations
InitFld == profile = "host" /\ FldStart /\ ScanOff /\ IdOff /\ OthersOff

\* the same with the roots /a and /tmp, the second rejected by isExcluded
FldRoots == { <<Sep>> \o Str_a, <<Sep>> \o Str_tmp }
InitFldRoots ==
    /\ profile = "host"
    /\ root \in FldRoots
    /\ FldBegin
    /\ ScanOff /\ IdOff /\ OthersOff

NextFld ==
    \/ FldVisit
    \/ FldSend
    \/ FldReturn
    \/ FldCloseDir
    \/ FldCloseRes
    \/ FldProgRecv
    \/ FldProgClosed
    \/ FldCollect
    \/ FldCollectEnd
    \/ FldDone
    \/ FldPrint

SpecFld == InitFld /\ [][NextFld]_vars

SpecFldRoots == InitFldRoots /\ [][NextFld]_vars

\* chains of nested directories, more than resultChan holds
InitFldChain == profile = "deep" /\ FldStart /\ ScanOff /\ IdOff /\ OthersOff

\* every goroutine is scheduled whenever it can take its next step
FldFairness ==
    /\ WF_vars(FldVisit)
    /\ WF_vars(FldSend)
    /\ WF_vars(FldReturn)
    /\ WF_vars(FldCloseDir)
    /\ WF_vars(FldCloseRes)
    /\ WF_vars(FldProgRecv)
    /\ WF_vars(FldProgClosed)
    /\ WF_vars(FldCollect)
    /\ WF_vars(FldCollectEnd)
    /\ WF_vars(FldDone)
    /\ WF_vars(FldPrint)

SpecFldLive == InitFldChain /\ [][NextFld]_vars /\ FldFairness

----------------------------------------------------------------------------
(* Properties *)

Range(s) == {s[i] : i \in 1..Len(s)}

NoDuplicates(s) == \A i, j \in 1..Len(s) : s[i] = s[j] => i = j

RECURSIVE SumTotal(_, _)
SumTotal(m, S) ==
    IF S = {} THEN 0
    ELSE LET p == CHOOSE x \in S : TRUE
         IN  m[p].Total + SumTotal(m, S \ {p})

\* the records of m whose immediate parent path is p
ChildRecords(m, p) == {c \in DOMAIN m : c # p /\ Dir(c) = p}

\* the paths ever pushed on the queue whose immediate parent path is p
EnqueuedChildren(p) == {c \in Range(enq) : c # p /\ Dir(c) = p}

Path_a == <<Sep>> \o Str_a
Path_ab == Join(Path_a, Str_b)
Path_abc == Join(Path_ab, Str_c)

\* the scan found /a with 100 bytes, /a/b with 200 bytes, /a/b/c with 300 bytes
Scenario ==
    /\ root = Path_a
    /\ DOMAIN scanned = {Path_a, Path_ab, Path_abc}
    /\ scanned[Path_a].Size = 100
    /\ scanned[Path_ab].Size = 200
    /\ scanned[Path_abc].Size = 300

\* C1: after bfsScan and one aggregateTotals, the Total of every record of the
\* map is its Size plus the Totals of the records whose immediate parent it is;
\* for /a (100 bytes), /a/b (200) and /a/b/c (300) the Totals are 600, 500, 300.
C1_TotalIsSizePlusChildTotals ==
    aggRuns = 1 =>
        /\ \A p \in DOMAIN res :
               res[p].Total = res[p].Size + SumTotal(res, ChildRecords(res, p))
        /\ Scenario =>
               /\ res[Path_abc].Total = 300
               /\ res[Path_ab].Total = 500
               /\ res[Path_a].Total = 600

C1_Witness ==
    /\ aggRuns = 1
    /\ Scenario
    /\ res[Path_a].Total = 600

\* C2: a second aggregateTotals leaves the Total of every record as the first
\* call left it.
C2_AggregateIdempotent ==
    aggRuns = 2 => \A p \in DOMAIN agg1 : res[p].Total = agg1[p].Total

\* C3: a directory whose enumeration exceeded slow at any point is marked
\* Skipped, none of its sub-directories is ever pushed on the queue and none
\* has a record.
C3_SlowDirSkippedWithoutChildren ==
    slowNow =>
        LET d == visited[Len(visited)]
        IN  /\ d \in DOMAIN res
            /\ res[d].Skipped
            /\ EnqueuedChildren(d) = {}
            /\ ChildRecords(res, d) = {}

\* the main goroutine waits on a channel operation that cannot proceed
MainBlocked ==
    \/ pc = "send" /\ ~ENABLED BfsSend
    \/ pc = "waitDone" /\ ~ENABLED DoneHandoff

\* the reporter goroutine has returned or waits on a channel operation that
\* cannot proceed
ReporterBlocked ==
    \/ rpc = "exited"
    \/ rpc = "sendDone" /\ ~ENABLED DoneHandoff
    \/ rpc = "select" /\ ~ENABLED (RepCtxDone \/ RepRecv \/ RepClosed \/ RepTick)

\* C4: once the cancellation signal has fired, the program is never stuck
\* before its result is aggregated: the main goroutine or the reporter can
\* always take a step.
C4_NoDeadlockAfterCancel ==
    cancelled => (pc = "output" \/ ~(MainBlocked /\ ReporterBlocked))

\* C5: when the loop is left on the cancellation signal, the returned map has
\* a record for a path exactly if the path was dequeued, and no path still in
\* the queue has a record.
C5_CancelledResultIsVisited ==
    leftByCancel =>
        /\ DOMAIN scanned = Range(visited)
        /\ Cardinality(DOMAIN scanned) = Len(visited)
        /\ \A i \in 1..Len(q) : q[i] \notin DOMAIN scanned

C5_Witness ==
    /\ leftByCancel
    /\ Len(visited) = 2
    /\ Len(q) > 0
    /\ pc = "output"

\* what main receives from bfsScan: m := bfsScan(...), the map alone
ScanResult == [records |-> scanned]

\* C6: the caller receives completed = false when the loop was left on the
\* cancellation signal and completed = true when the queue drained.
C6_CompletedReported ==
    pc \in {"close", "waitDone", "aggregate", "output"} =>
        /\ "completed" \in DOMAIN ScanResult
        /\ ScanResult.completed = ~leftByCancel

\* C7: with the cancellation signal set, at most one more directory is
\* dequeued (the one whose iteration had passed the check), and no step of the
\* scan changes or removes a record that exists.
C7_CancelStopsDequeuing ==
    [][ (cancelled' /\ aggRuns' = 0) =>
            /\ lateDeq' <= 1
            /\ \A p \in DOMAIN res : p \in DOMAIN res' /\ res'[p] = res[p] ]_vars

C7_Witness ==
    /\ lateDeq = 1
    /\ leftByCancel
    /\ Len(visited) >= 2
    /\ Len(q) > 0

\* C8: no path is pushed on the queue twice, none is dequeued twice, and a
\* dequeued path is never in the queue again.
C8_VisitedOnce ==
    /\ NoDuplicates(enq)
    /\ NoDuplicates(visited)
    /\ NoDuplicates(q)
    /\ \A i \in 1..Len(q) : q[i] \notin Range(visited)

C8_Witness ==
    /\ Len(visited) = MaxDirs
    /\ profile = "tree"
    /\ Len(q) = 0

\* C9: directories are dequeued in the order they were pushed, so a directory
\* nearer to the root is dequeued before a deeper one.
C9_BreadthFirstOrder ==
    /\ Len(visited) <= Len(enq)
    /\ \A i \in 1..Len(visited) : visited[i] = enq[i]
    /\ \A i, j \in 1..Len(visited) :
           Level(visited[i]) < Level(visited[j]) => i < j

C9_Witness ==
    /\ Len(visited) = 4
    /\ Level(visited[2]) = Level(visited[3])
    /\ Level(visited[3]) < Level(visited[4])
    /\ Dir(visited[4]) = visited[2]

\* C10: a dequeued path that matches the exclusion policy is never read; its
\* record is Skipped with Size 0 and Total 0 (before and after aggregation)
\* and none of its children is ever pushed on the queue.
C10_ExcludedNeverRead ==
    \A p \in Range(visited) :
        isExcluded(p, excl) =>
            /\ p \notin readDirs
            /\ p \in DOMAIN res
            /\ res[p].Skipped
            /\ res[p].Size = 0
            /\ res[p].Total = 0
            /\ EnqueuedChildren(p) = {}

C10_Witness ==
    /\ aggRuns = 1
    /\ \E p \in Range(visited) :
           /\ isExcluded(p, excl)
           /\ Dir(p) # root
           /\ res[Dir(p)].Size > 0
           /\ res[root].Total > res[root].Size

\* the scan loop has ended and bfsScan has returned
ScanReturned ==
    pc \in {"close", "waitDone", "aggregate", "output", "printed", "panic"}

\* C11: a failed read of a directory other than the root leaves its record
\* Skipped with own size 0 and none of its children pushed; the step takes
\* only that directory off the queue and goes on with the loop, and a scan
\* that is not cancelled dequeues every path that was pushed, in push order.
C11_ReadFailureRecoveredLocally ==
    /\ [](\A p \in failed :
             p # root =>
                 /\ p \in DOMAIN res
                 /\ res[p].Skipped
                 /\ res[p].Size = 0
                 /\ EnqueuedChildren(p) = {})
    /\ [][ (failed' # failed /\ QFront(q) # root) =>
               (q' = QRemove(q) /\ pc' = "check") ]_vars
    /\ []((ScanReturned /\ ~leftByCancel) => visited = enq)

C11_Witness ==
    /\ ScanReturned
    /\ ~leftByCancel
    /\ \E i \in 1..(Len(visited) - 1) :
           /\ visited[i] \in failed
           /\ visited[i] # root
           /\ visited[i+1] \in readDirs \ failed
           /\ ~res[visited[i+1]].Skipped

\* C12: when the read of the root fails, bfsScan hands its caller an explicit
\* failure and no records.
C12_RootFailureReported ==
    (ScanReturned /\ root \in failed) =>
        /\ "failed" \in DOMAIN ScanResult
        /\ DOMAIN ScanResult.records = {}

\* the paths of the sub-directories of d among the entries from..to of ents
SubDirs(d, ents, from, to) ==
    {Join(d, ents[i].name) : i \in {j \in from..to : ents[j].isDir}}

\* C13: when the entry loop breaks on the time check at entry k, the record
\* is Skipped and its own size is the sum of the regular files among entries
\* 1..k (50 bytes after f of 20 and g of 30); no entry after k is counted or
\* pushed; the step keeps the rest of the queue and goes on to the progress
\* send, and a scan that is not cancelled dequeues every path that was pushed.
C13_PartialSumKept ==
    /\ [](rdNow.cut > 0 =>
             /\ res[dir].Skipped
             /\ res[dir].Size = FileBytes(rdNow.ents, rdNow.cut)
             /\ res[dir].FileCount =
                    Cardinality({i \in 1..rdNow.cut : ~rdNow.ents[i].isDir})
             /\ EnqueuedChildren(dir) = SubDirs(dir, rdNow.ents, 1, rdNow.cut)
             /\ SubDirs(dir, rdNow.ents, rdNow.cut + 1, Len(rdNow.ents))
                    \cap (Range(enq) \cup DOMAIN res) = {})
    /\ [][ (rdNow' # rdNow /\ rdNow'.cut > 0) =>
               /\ pc' = "send"
               /\ Len(q') >= Len(q) - 1
               /\ SubSeq(q', 1, Len(q) - 1) = QRemove(q) ]_vars
    /\ []((ScanReturned /\ ~leftByCancel) => Range(enq) = Range(visited))

C13_Witness ==
    /\ profile = "slow"
    /\ rdNow.cut = 2
    /\ Len(rdNow.ents) = 4
    /\ rdNow.ents[1].isDir = FALSE
    /\ rdNow.ents[4].isDir
    /\ res[dir].Size = 50
    /\ Len(q) > 0

\* the directories that have reached a terminal state: every dequeued path
\* whose iteration has run to its end (past the progress send, if any)
TerminalCount == IF pc = "send" THEN Len(visited) - 1 ELSE Len(visited)

\* C19: bfsScan has sent exactly one progress event for every directory that
\* has reached a terminal state (excluded and unreadable ones included), and
\* the NumDirs of the k-th event is k, the number of directories terminal so
\* far.
C19_OneEventPerDirectory ==
    /\ Len(sent) = TerminalCount
    /\ \A k \in 1..Len(sent) :
           /\ sent[k].NumDirs = k
           /\ sent[k].CurrentDir = visited[k]

\* C20: the values the reporter's last takes are, in order, events bfsScan
\* sent (an order-preserving subsequence of them), so the NumDirs and
\* BytesTotal the reporter holds never decrease.
C20_EventsInTraversalOrder ==
    /\ Len(lastSeq) <= Len(sent)
    /\ \A k \in 1..Len(lastSeq) : lastSeq[k] = sent[k]
    /\ \A j, k \in 1..Len(lastSeq) :
           j < k => /\ lastSeq[j].NumDirs <= lastSeq[k].NumDirs
                    /\ lastSeq[j].BytesTotal <= lastSeq[k].BytesTotal
    /\ (lastSeq # <<>> => last = lastSeq[Len(lastSeq)])

C20_Witness ==
    /\ Len(lastSeq) = 2
    /\ lastSeq[1].BytesTotal < lastSeq[2].BytesTotal
    /\ Len(prog) > 0
    /\ Len(sent) = 3

\* the reporter has left its loop: it is sending on done or has returned
ReporterStopped == rpc \in {"sendDone", "exited"}

\* C18: progressReporter leaves its loop only on the closed (and drained)
\* progress channel or on ctx.Done(), clearing the line, and on either of the
\* two it does leave; the send on done completes at most once; once the
\* reporter has left its loop the progress line is not written again; and main
\* is past <-done (aggregating, printing) only with that one send received and
\* the reporter returned.
C18_ReporterStopsBeforeOutput ==
    /\ [](doneSent <= 1)
    /\ []((pc \in {"aggregate", "output"}) =>
              (doneSent = 1 /\ rpc = "exited" /\ screen = Blank))
    /\ [][ ReporterStopped => (screen' = screen /\ ReporterStopped') ]_vars
    /\ [][ (~ReporterStopped /\ ReporterStopped') =>
               /\ cancelled \/ (progClosed /\ prog = <<>>)
               /\ screen' = Blank ]_vars
    /\ ((cancelled \/ progClosed) ~> ReporterStopped)

C18_Witness ==
    /\ pc = "output"
    /\ doneSent = 1
    /\ ~cancelled
    /\ Len(lastSeq) >= 2

\* the keys getDevInode returned for the paths dequeued before the i-th
KeysBefore(i) ==
    {keyOf[dequeued[j]] : j \in {k \in 1..(i - 1) : dequeued[k] \in DOMAIN keyOf}} \ {0}

\* the paths with a record, in the queue or about to be pushed whose
\* immediate parent path is p
KnownChildren(p) ==
    {c \in DOMAIN resultsMap \cup Range(pushedAll) \cup Range(toPush) :
        c # p /\ Dir(c) = p}

\* p is d or lies below d
Within(p, d) == p = d \/ HasPrefix(p, Join(d, <<>>))

\* C14: every dequeued directory that is not excluded and whose key was
\* already returned for an earlier dequeued directory is marked Duplicate, is
\* never read, keeps Size 0 and gets no child pushed, so that no directory
\* at or below a Duplicate path is ever read.
C14_DuplicateNeverRead ==
    /\ \A i \in 1..Len(dequeued) :
           LET p == dequeued[i]
           IN  (p \in DOMAIN keyOf /\ keyOf[p] \in KeysBefore(i)) =>
                   /\ resultsMap[p].Duplicate
                   /\ p \notin wasRead
                   /\ resultsMap[p].Size = 0
                   /\ KnownChildren(p) = {}
    /\ \A p \in DOMAIN resultsMap :
           resultsMap[p].Duplicate => \A r \in wasRead : ~Within(r, p)

C14_Witness ==
    /\ pc3 = "output"
    /\ \E p \in DOMAIN resultsMap, s \in wasRead :
           /\ resultsMap[p].Duplicate
           /\ keyOf[s] = keyOf[p]
           /\ Dir(s) = Dir(p)
           /\ KnownChildren(s) # {}

Path_ac == Join(Path_a, Str_c)

\* position of path p in the dequeue order (0: not dequeued)
DequeuedAt(p) ==
    IF p \in Range(dequeued)
    THEN CHOOSE i \in 1..Len(dequeued) : dequeued[i] = p
    ELSE 0

C16_UnsupportedBypassesCheck ==
    /\ [](\A p \in DOMAIN keyOf :
             keyOf[p] = 0 => (~resultsMap[p].Duplicate /\ p \in wasRead))
    /\ [][ (dequeued' # dequeued /\ QFront(idQueue) \in DOMAIN keyOf'
              /\ keyOf'[QFront(idQueue)] = 0) =>
               visitedDevIno' = visitedDevIno ]_vars
    /\ [](goos = "windows" =>
             /\ visitedDevIno = {}
             /\ \A p \in DOMAIN resultsMap : ~resultsMap[p].Duplicate)

C16_Witness ==
    /\ pc3 = "output"
    /\ goos = "linux"
    /\ \E p \in wasRead, s \in wasRead, t \in DOMAIN resultsMap :
           /\ keyOf[s] # 0
           /\ DequeuedAt(s) < DequeuedAt(p)
           /\ keyOf[p] = 0
           /\ resultsMap[p].Size > 0
           /\ resultsMap[t].Duplicate

\* C17: no record is both Skipped and Duplicate, and a record that is Skipped
\* or Duplicate is never changed by a later step.
C17_TerminalStatusExclusive ==
    /\ [](\A p \in DOMAIN resultsMap :
             ~(resultsMap[p].Skipped /\ resultsMap[p].Duplicate))
    /\ [][ \A p \in DOMAIN resultsMap :
               (resultsMap[p].Skipped \/ resultsMap[p].Duplicate) =>
                   (p \in DOMAIN resultsMap' /\ resultsMap'[p] = resultsMap[p]) ]_vars

C17_Witness ==
    /\ pc3 = "output"
    /\ \E p, s \in DOMAIN resultsMap :
           /\ resultsMap[p].Skipped
           /\ p \in wasRead
           /\ resultsMap[s].Duplicate
           /\ DequeuedAt(p) < DequeuedAt(s)

----------------------------------------------------------------------------
(* The progress side channel, totals and termination of the aggregating program *)

\* bfsScan is at its progress send and the send cannot proceed
ScanWaitsToSend == pc = "send" /\ ~ENABLED BfsSend

\* C21: the traversal never blocks on the progress side channel: in no
\* reachable state is bfsScan waiting to send a progress event, whatever the
\* reporter is doing.
C21_TraversalNeverWaitsForReporter == ~ScanWaitsToSend

\* C22: once bfsScan has returned, before and after aggregateTotals, the
\* Total of every record is at least its Size, and equal to its Size when the
\* map holds no record of a child of it.
C22_TotalAtLeastSize ==
    ScanReturned =>
        \A p \in DOMAIN res :
            /\ res[p].Total >= res[p].Size
            /\ ChildRecords(res, p) = {} => res[p].Total = res[p].Size

\* after the aggregation /a/b holds more than its own 200 bytes and its child
\* /a/b/c, without child records, exactly its own 300
C22_Witness ==
    /\ aggRuns = 1
    /\ Scenario
    /\ res[Path_ab].Size = 200
    /\ res[Path_ab].Total > res[Path_ab].Size
    /\ ChildRecords(res, Path_abc) = {}
    /\ res[Path_abc].Total = 300

\* C23: aggregateTotals adds no record: after the aggregation the paths of the
\* map are exactly the paths the scan dequeued, whatever the root.
C23_AggregationAddsNoRecord ==
    aggRuns = 1 => DOMAIN res = Range(visited)

----------------------------------------------------------------------------
(* The list main prints *)

\* the records of res other than the one of the scan root
NonRoot == {p \in DOMAIN res : res[p].Path # root}

\* fat has at most topN entries in the order of non-increasing Total, none of
\* them the root record; they all reach minBytes if some record other than the
\* root does, and are the largest records other than the root if none does
ListAsSpecified ==
    /\ Len(fat) <= topN
    /\ \A i \in 1..(Len(fat) - 1) : fat[i].Total >= fat[i + 1].Total
    /\ \A i \in 1..Len(fat) : fat[i].Path # root /\ fat[i].Path \in DOMAIN res
                               /\ fat[i] = res[fat[i].Path]
    /\ NoDuplicates(fat)
    /\ IF \E p \in NonRoot : res[p].Total >= minBytes
       THEN \A i \in 1..Len(fat) : fat[i].Total >= minBytes
       ELSE /\ Len(fat) = IF Cardinality(NonRoot) < topN
                          THEN Cardinality(NonRoot) ELSE topN
            /\ \A p \in NonRoot :
                   res[p] \notin Range(fat) =>
                       \A i \in 1..Len(fat) : fat[i].Total >= res[p].Total

\* for a --top that is not negative main prints the list as specified
PrintedListAsSpecified == pc = "printed" => ListAsSpecified

\* C30: when main has come to its end, the list it printed has at most topN
\* entries, ordered by non-increasing Total, without the root record; its
\* entries all reach minBytes if some non-root record does, and otherwise are
\* the topN largest non-root records.
C30_PrintedListSelection == pc \in {"printed", "panic"} => ListAsSpecified

\* the scan dequeued every path it pushed, bfsScan returned, prog was closed,
\* the reporter sent its completion and the aggregation ran
RanToCompletion ==
    /\ pc = "output"
    /\ q = <<>>
    /\ Range(enq) = Range(visited)
    /\ ~leftByCancel
    /\ progClosed
    /\ rpc = "exited"
    /\ doneSent = 1
    /\ aggRuns = 1

\* C24: on a finite tree, with the goroutines scheduled fairly, a scan whose
\* cancellation signal never fires runs to completion: every path pushed is
\* dequeued, the queue empties, bfsScan returns, main closes prog, the reporter
\* signals its completion and the aggregation runs.
C24_ScanTerminates == <>(cancelled \/ RanToCompletion)

\* the run completed without cancellation after more events than prog holds
C24_Witness ==
    /\ ~cancelled
    /\ RanToCompletion
    /\ Len(sent) > ProgCap

----------------------------------------------------------------------------
(* The single-pass program: results, channels, slow directories, mounts *)

\* bfsComputeSizes has returned
BfsReturned == bpc \in {"closeDir", "closeRes", "exited"}

\* main has printed its table
FldFinished == mpc = "printed" /\ gpc = "exited" /\ bpc = "exited"

\* a goroutine of the single-pass program can take a step
FldCanStep ==
    \/ bpc = "loop"
    \/ bpc = "send" /\ Len(resultChan) < ResultChanCap
    \/ bpc \in {"closeDir", "closeRes"}
    \/ gpc = "recv" /\ (dirChan # <<>> \/ dirChanClosed)
    \/ mpc = "collect" /\ (resultChan # <<>> \/ resultChanClosed)
    \/ mpc = "waitDone" /\ gpc = "sendDone"
    \/ mpc = "sort"

\* C26: in every interleaving of the three goroutines, dirChan and resultChan
\* are closed only once bfsComputeSizes has returned and nothing is sent on
\* them afterwards; the program is never stuck before main has printed; and
\* main eventually drains resultChan, receives from doneChan and prints.
C26_ClosedAfterReturnAndNoDeadlock ==
    /\ []((dirChanClosed \/ resultChanClosed) => BfsReturned)
    /\ [][ (dirChanClosed => Len(dirChan') <= Len(dirChan))
           /\ (resultChanClosed => Len(resultChan') <= Len(resultChan)) ]_vars
    /\ [](FldFinished \/ FldCanStep)
    /\ <>(FldFinished /\ resultChan = <<>> /\ dirChan = <<>>)

\* the run ended after bfsComputeSizes had to wait for room in resultChan
C26_Witness ==
    /\ bpc = "send"
    /\ Len(resultChan) = ResultChanCap
    /\ mpc = "collect"
    /\ allResults = <<>>

\* C25: bfsComputeSizes sends exactly one FolderSize per dequeued directory,
\* whichever way the directory ends (network mount, excluded, failed, slow or
\* fully read), and when main starts sorting, allResults holds exactly the
\* results sent, in the order sent, none lost and none twice.
C25_OneResultPerDirectory ==
    /\ Len(sentF) = (IF bpc = "send" THEN Len(deqF) - 1 ELSE Len(deqF))
    /\ \A i \in 1..Len(sentF) : sentF[i].Path = deqF[i]
    /\ NoDuplicates(deqF)
    /\ allResults \o resultChan = sentF
    /\ mpc \in {"sort", "printed"} =>
           /\ allResults = sentF
           /\ Len(allResults) = Len(deqF)
           /\ Range(deqF) = Range(pushedF)

\* main starts sorting with the results of a network mount, of an excluded
\* directory and of a directory read in full
C25_Witness ==
    /\ mpc = "sort"
    /\ Len(allResults) = 3
    /\ \E i \in 1..3 : allResults[i].Path \in mounts /\ allResults[i].Skipped
    /\ \E i \in 1..3 : /\ allResults[i].Path \notin mounts
                       /\ isExcludedBase(allResults[i].Path)
                       /\ allResults[i].Skipped
    /\ \E i \in 1..3 : ~allResults[i].Skipped /\ allResults[i].Size = 0

\* the paths bfsComputeSizes pushed whose immediate parent path is p
PushedChildren(p) == {c \in Range(pushedF) \cup Range(kids) : c # p /\ Dir(c) = p}

SlowDetectedIsSkipped ==
    \A i \in 1..Len(sentF) :
        (sentF[i].Path \in readF /\ sentF[i].Skipped) =>
            /\ PushedChildren(sentF[i].Path) = {}
            /\ sentF[i].Path \in slowF => sentF[i].Size = partialF[sentF[i].Path]

\* C28: a dequeued path that is a known network mount is reported Skipped with
\* Size 0, is never read and has no child pushed; the set of network mounts is
\* the one obtained before the scan and is empty whenever the root is not a
\* filesystem root.
C28_NetworkMountSkippedUnread ==
    /\ [](\A i \in 1..Len(deqF) :
              deqF[i] \in mounts =>
                  /\ deqF[i] \notin readF
                  /\ PushedChildren(deqF[i]) = {}
                  /\ IF i <= Len(sentF)
                     THEN sentF[i] = FolderResult(deqF[i], 0, TRUE)
                     ELSE pending = FolderResult(deqF[i], 0, TRUE))
    /\ [](~isRootPath(root) => mounts = {})
    /\ [][mounts' = mounts]_vars

\* the scan of / is over with /b, a network mount, reported and unread
C28_Witness ==
    /\ mpc = "printed"
    /\ isRootPath(root)
    /\ Join(root, Str_b) \in mounts
    /\ \E i \in 1..Len(allResults) :
           allResults[i] = FolderResult(Join(root, Str_b), 0, TRUE)
    /\ Join(root, Str_b) \notin readF
    /\ root \in readF

\* C29: the progress notification never makes the traversal wait: a dequeue
\* can proceed whatever dirChan holds, and with dirChan full the path is
\* dropped; the displayed counter scannedCount never exceeds the number of
\* directories dequeued so far.
C29_NotificationNeverBlocks ==
    /\ []((bpc = "loop" /\ bfsQueue # <<>>) => ENABLED FldVisit)
    /\ [][ (Len(deqF') > Len(deqF) /\ Len(dirChan) = DirChanCap) =>
               dirChan' = dirChan ]_vars
    /\ [](Len(dirChan) <= DirChanCap)
    /\ [](scannedCount + Len(dirChan) <= Len(deqF))
    /\ [](progressLine.count <= Len(deqF))

\* at the end of the scan the counter is strictly smaller than the number of
\* directories dequeued: notifications were dropped
C29_Witness ==
    /\ mpc = "printed"
    /\ gpc = "exited"
    /\ Len(deqF) = 3
    /\ scannedCount < Len(deqF)

----------------------------------------------------------------------------
(* The type histogram, the timestamps and the frame of aggregateTotals *)

\* the bytes a histogram accounts for: the sum of its values
RECURSIVE SumOfTypes(_, _)
SumOfTypes(ft, cats) ==
    IF cats = {} THEN 0
    ELSE LET c == CHOOSE x \in cats : TRUE
         IN  ft[c] + SumOfTypes(ft, cats \ {c})

HistogramBytes(fs) == SumOfTypes(fs.FileTypes, Categories)

\* C32: once bfsScan has returned the values of every record's FileTypes sum
\* to its Size, and after one aggregateTotals they sum to its Total
C32_HistogramAccountsForLevel ==
    /\ (ScanReturned /\ aggRuns = 0) =>
           \A p \in DOMAIN res : HistogramBytes(res[p]) = res[p].Size
    /\ aggRuns = 1 =>
           \A p \in DOMAIN res : HistogramBytes(res[p]) = res[p].Total

\* aggregation has run over a root with files of both types and a child with
\* files
C32_Witness ==
    /\ aggRuns = 1
    /\ root \in DOMAIN res
    /\ res[root].FileTypes["DB-Backup"] > 0
    /\ res[root].FileTypes["Disk Image"] > 0
    /\ res[root].Total > res[root].Size
    /\ res[root].Size > 0

\* C34: one aggregateTotals leaves Path, Size and Skipped of every record as
\* bfsScan returned them, and leaves a record without a child record in the
\* map as it was in every field
C34_AggregationFrame ==
    aggRuns = 1 =>
        \A p \in DOMAIN scanned :
            /\ p \in DOMAIN res
            /\ res[p].Path = scanned[p].Path
            /\ res[p].Size = scanned[p].Size
            /\ res[p].Skipped = scanned[p].Skipped
            /\ ChildRecords(res, p) = {} => res[p] = scanned[p]

\* aggregation has run over a leaf that holds files and over a parent whose
\* Total it raised
C34_Witness ==
    /\ aggRuns = 1
    /\ \E p \in DOMAIN scanned :
           /\ ChildRecords(res, p) = {}
           /\ scanned[p].Size > 0
           /\ Dir(p) \in DOMAIN scanned
           /\ res[Dir(p)].Total > scanned[Dir(p)].Total
           /\ scanned[Dir(p)].Skipped

\* the entries of the current iteration that the entry loop counted as
\* regular files (those up to the entry at which it broke)
CountedNow ==
    {i \in 1..(IF rdNow.cut > 0 THEN rdNow.cut ELSE Len(rdNow.ents)) :
        ~rdNow.ents[i].isDir}

MinOf(S) == CHOOSE x \in S : \A y \in S : x <= y
MaxOf(S) == CHOOSE x \in S : \A y \in S : x >= y

RECURSIVE SumFileCount(_, _)
SumFileCount(m, S) ==
    IF S = {} THEN 0
    ELSE LET p == CHOOSE x \in S : TRUE
         IN  m[p].FileCount + SumFileCount(m, S \ {p})

\* the records bfsScan returned at or below p
SubtreeRecords(p) == {c \in DOMAIN scanned : Within(c, p)}

\* the record of the directory just read counts exactly the regular files the
\* entry loop went through, with their earliest and latest modification time
OwnLevelTimes ==
    pc = "send" =>
        /\ res[dir].FileCount = Cardinality(CountedNow)
        /\ IF CountedNow = {}
           THEN res[dir].Oldest = 0 /\ res[dir].Newest = 0
           ELSE /\ res[dir].Oldest = MinOf({rdNow.ents[i].mt : i \in CountedNow})
                /\ res[dir].Newest = MaxOf({rdNow.ents[i].mt : i \in CountedNow})

\* after one aggregateTotals every record holds the count, the earliest and
\* the latest time of the files counted in the records of its subtree
SubtreeTimes ==
    aggRuns = 1 =>
        \A p \in DOMAIN res :
            LET S == SubtreeRecords(p)
                W == {c \in S : scanned[c].FileCount > 0}
            IN  /\ res[p].FileCount = SumFileCount(scanned, S)
                /\ IF W = {}
                   THEN res[p].Oldest = 0 /\ res[p].Newest = 0
                   ELSE /\ res[p].Oldest = MinOf({scanned[c].Oldest : c \in W})
                        /\ res[p].Newest = MaxOf({scanned[c].Newest : c \in W})

\* C33: after bfsScan and one aggregateTotals, a record whose subtree counted
\* a regular file has Oldest the minimum and Newest the maximum modification
\* time of the files counted in the records of its subtree and FileCount
\* their number; a record whose subtree counted none keeps the zero times and
\* FileCount 0
C33_SubtreeTimeSpan == OwnLevelTimes /\ SubtreeTimes

\* aggregation has run over a root without files of its own whose children
\* b and c hold files of different times, the later one in b
C33_Witness ==
    /\ aggRuns = 1
    /\ root \in DOMAIN scanned
    /\ scanned[root].FileCount = 0
    /\ Join(root, Str_b) \in DOMAIN scanned
    /\ Join(root, Str_c) \in DOMAIN scanned
    /\ scanned[Join(root, Str_b)].Oldest = 2
    /\ scanned[Join(root, Str_c)].Newest = 1
    /\ res[root].Oldest = 1
    /\ res[root].Newest = 2
    /\ res[root].FileCount >= 2
    /\ <<Sep>> \in DOMAIN res
    /\ res[<<Sep>>].Oldest = 1

----------------------------------------------------------------------------
(* The exclusion policy applied to the scan root *)

\* the aggregating program with an excluded root: no directory is read, no
\* progressUpdate is sent, and bfsScan, unless it was cancelled before its
\* first iteration, returns the one record of the root, Skipped with Size 0
ExcludedRootAggregating ==
    isExcluded(root, excl) =>
        /\ readDirs = {}
        /\ sent = <<>>
        /\ prog = <<>>
        /\ (ScanReturned /\ aggRuns = 0 /\ ~leftByCancel) =>
               /\ DOMAIN res = {root}
               /\ res[root].Skipped
               /\ res[root].Size = 0

ExcludedRootAggregating_Witness ==
    /\ isExcluded(root, excl)
    /\ ScanReturned
    /\ aggRuns = 0
    /\ ~leftByCancel
    /\ root \in DOMAIN res

\* the base name of the root is one of proc, sys, dev, run, tmp, var
RootIsPseudoDir == Base(root) \in BuiltinExcluded

\* the single-pass program with an excluded root reads no directory and
\* collects the one result of the root, Skipped with Size 0
ExcludedRootUnread ==
    RootIsPseudoDir =>
        /\ readF = {}
        /\ \A i \in 1..Len(sentF) : sentF[i] = FolderResult(root, 0, TRUE)
        /\ Len(sentF) <= 1
        /\ FldFinished => allResults = << FolderResult(root, 0, TRUE) >>

----------------------------------------------------------------------------
(* The pure functions: classifyExtension and the two isExcluded *)

\* s with its letters in upper case, and with only the letter after the dot
\* in upper case
UpperOf(s) ==
    [i \in 1..Len(s) |->
        IF \E u \in DOMAIN UpperToLower : UpperToLower[u] = s[i]
        THEN CHOOSE u \in DOMAIN UpperToLower : UpperToLower[u] = s[i]
        ELSE s[i]]
CapitalOf(s) == [i \in 1..Len(s) |-> IF i = 2 THEN UpperOf(s)[i] ELSE s[i]]

\* the extensions of the tables of classifyExtension
TableExts == UNION {ExtCases[i].exts : i \in 1..Len(ExtCases)}

\* extensions that are in no table, and no extension at all
OtherExts ==
    { <<>>, <<".">>, <<".","z","z","z">>, <<".","s","q">>, <<".","s","q","l","x">>,
      <<".","i","s","o","s">>, <<".","G","O","O">>, <<".","j","p","g",".","x">> }

\* the file names classifyExtension is called with: a stem, possibly with a
\* dot or a directory in it, and an extension in lower, upper or mixed case
NameStems == { <<"f">>, <<"d","/","a",".","g","o">> }
NameInputs ==
    {s \o e : s \in NameStems,
              e \in TableExts \cup {UpperOf(x) : x \in TableExts}
                    \cup {CapitalOf(x) : x \in TableExts} \cup OtherExts}

\* the paths and the --exclude lists isExcluded is called with
PathInputs ==
    { <<Sep>>, <<Sep>> \o Str_a, <<Sep>> \o Str_tmp,
      Join(<<Sep>> \o Str_a, Str_tmp), Join(<<Sep>> \o Str_a, UpperOf(Str_tmp)),
      Join(<<Sep>> \o Str_a, CapitalOf(<<".">> \o Str_tmp)),
      Join(<<Sep>> \o Str_a, Str_tmp \o Str_x), Join(<<Sep>> \o Str_a, Str_x \o Str_tmp),
      Join(Join(<<Sep>> \o Str_a, Str_tmp), Str_x),
      Join(<<Sep>> \o Str_a, Str_tmp) \o <<Sep>>,
      Join(<<Sep>> \o Str_a, Str_b), Join(<<Sep>> \o Str_a, Str_b \o Str_c),
      Join(Join(<<Sep>> \o Str_a, Str_b), Str_d),
      <<Sep>> \o <<"p","r","o","c">>, <<Sep>> \o <<"S","y","s">>,
      Join(<<Sep>> \o Str_a, <<"v","a","r">>), Join(<<Sep>> \o Str_a, <<"D","E","V">>),
      Join(<<Sep>> \o Str_a, <<"r","u","n">>) }
RuleInputs ==
    { <<>>,
      << Join(<<Sep>> \o Str_a, Str_b) >>,
      << Join(Join(<<Sep>> \o Str_a, Str_b), Str_d), Join(<<Sep>> \o Str_a, UpperOf(Str_tmp)) >>,
      << <<Sep>> \o Str_x, <<Sep>> \o Str_a >> }

\* a call of classifyExtension(n)
CallClassify ==
    /\ retCategory' = classifyExtension(argName)
    /\ called' = called \cup {"classifyExtension"}
    /\ UNCHANGED << argName, argPath, argRules, retExcluded, retExcludedBase >>
    /\ UNCHANGED << profile, root, scanVars, idVars, fldVars, sliceVars >>

\* a call of isExcluded(p, ex) of the aggregating program
CallIsExcluded ==
    /\ retExcluded' = isExcluded(argPath, argRules)
    /\ called' = called \cup {"isExcluded"}
    /\ UNCHANGED << argName, argPath, argRules, retCategory, retExcludedBase >>
    /\ UNCHANGED << profile, root, scanVars, idVars, fldVars, sliceVars >>

\* a call of isExcluded(path) of the single-pass program
CallIsExcludedBase ==
    /\ retExcludedBase' = isExcludedBase(argPath)
    /\ called' = called \cup {"isExcludedBase"}
    /\ UNCHANGED << argName, argPath, argRules, retCategory, retExcluded >>
    /\ UNCHANGED << profile, root, scanVars, idVars, fldVars, sliceVars >>

\* the arguments are drawn; no function has been called on them
InitPure ==
    /\ profile = "tree"
    /\ root = <<Sep>>
    /\ argName \in NameInputs
    /\ argPath \in PathInputs
    /\ argRules \in RuleInputs
    /\ called = {}
    /\ retCategory = ""
    /\ retExcluded = FALSE
    /\ retExcludedBase = FALSE
    /\ ScanOff /\ IdOff /\ FldOff /\ SliceOff

NextPure == CallClassify \/ CallIsExcluded \/ CallIsExcludedBase

SpecPure == InitPure /\ [][NextPure]_vars

\* the category set of the specification
FixedCategories ==
    {"Image", "Video", "Audio", "Archive", "Document", "Application", "Code",
     "Log", "Database", "Backup", "DiskImage", "Configuration", "Font", "Web",
     "Spreadsheet", "Presentation", "Other"}

\* the names that differ from n only in the letter case of the extension
CaseVariants(n) ==
    LET e == Ext(n)
        s == SubSeq(n, 1, Len(n) - Len(e))
    IN  {s \o ToLower(e), s \o UpperOf(e), s \o CapitalOf(e)}

\* the result of classifyExtension is the same for every name whose extension
\* differs from n's only in letter case, and Other for an extension that is
\* in no table
ClassifierCaseBlind ==
    "classifyExtension" \in called =>
        /\ \A m \in CaseVariants(argName) : classifyExtension(m) = retCategory
        /\ ToLower(Ext(argName)) \notin TableExts => retCategory = "Other"
        /\ retCategory \in Categories

\* C35: classifyExtension is a total function of the file name whose result
\* does not depend on the letter case of the extension, is Other for every
\* extension in no table, and always belongs to the fixed category set
\* (Image, ..., Backup, DiskImage, Configuration, ..., Other)
C35_ClassifierInFixedSet ==
    /\ ClassifierCaseBlind
    /\ "classifyExtension" \in called => retCategory \in FixedCategories

\* a user exclusion is a string prefix of the path
PrefixRuleMatches == \E i \in 1..Len(argRules) : HasPrefix(argPath, argRules[i])

\* isExcluded of the aggregating program: true iff a user exclusion is a
\* prefix of the path or the lower-cased base name is a pseudo-directory;
\* isExcluded of the single-pass program: true iff the base name is one
ExcludedAsCoded ==
    /\ "isExcluded" \in called =>
           retExcluded = (PrefixRuleMatches \/ ToLower(Base(argPath)) \in BuiltinExcluded)
    /\ "isExcludedBase" \in called =>
           retExcludedBase = (Base(argPath) \in BuiltinExcluded)

\* C36: isExcluded(path, excludes) is true if and only if a user exclusion
\* is a string prefix of path or the base name of path is exactly one of
\* proc, sys, dev, run, tmp, var
C36_ExcludedIffPrefixOrExactBase ==
    /\ "isExcluded" \in called =>
           retExcluded = (PrefixRuleMatches \/ Base(argPath) \in BuiltinExcluded)
    /\ "isExcludedBase" \in called =>
           retExcludedBase = (Base(argPath) \in BuiltinExcluded)

----------------------------------------------------------------------------
(* The identity key of a directory whose read failed *)

\* the paths other than p for which getDevInode returned p's key
SameKey(p) == {x \in DOMAIN keyOf : x # p /\ keyOf[x] = keyOf[p]}

\* C39: the key of a directory is in the visited set from before its read,
\* so when the read fails or runs out of time (the record is Skipped) every
\* other path with that key is marked Duplicate and is not read: no path
\* with that key is fully scanned
C39_FailedReadStillClaimsKey ==
    \A p \in wasRead :
        (p \in DOMAIN keyOf /\ keyOf[p] # 0 /\ resultsMap[p].Skipped) =>
            /\ keyOf[p] \in visitedDevIno
            /\ \A x \in SameKey(p) :
                   /\ x \notin wasRead
                   /\ resultsMap[x].Duplicate
                   /\ resultsMap[x].Size = 0
                   /\ DequeuedAt(x) > DequeuedAt(p)

\* a directory was read and Skipped, and a later path with its key was
\* marked Duplicate
C39_Witness ==
    \E p \in wasRead :
        /\ p \in DOMAIN keyOf
        /\ keyOf[p] # 0
        /\ resultsMap[p].Skipped
        /\ \E x \in SameKey(p) : resultsMap[x].Duplicate

----------------------------------------------------------------------------
(* The slice-returning program: bfsScan that returns []FolderSize, its
   progressReporter and main.  A record is FolderSize{Path, Size, Skipped};
   its isExcluded is that of the aggregating program. *)

\* ensureFolder(m, path), as the map after the call
ensureFolder(m, p) ==
    IF p \in DOMAIN m THEN m
    ELSE [x \in DOMAIN m \cup {p} |-> IF x = p THEN FolderResult(p, 0, FALSE) ELSE m[x]]

\* for _, fi := range files { if time.Since(start) > slowThreshold {
\* skipThis = true; break }; if !fi.IsDir() { localSize += fi.Size() } }
SliceScan(ents, slowAt) == SumEntries(ents, 1, slowAt, 0)

\* the variant that adds the bytes of a skipped directory as well
AddToTotal_CountsSkipped(total, sc) == total + sc.localSize

\* if !skipThis { atomic.AddInt64(&totalBytes, localSize) }
AddToTotal(total, sc) == IF sc.skipDir THEN total ELSE total + sc.localSize

\* the variant that pushes the sub-directories without giving them a record
RecordKids_None(m, subs) == m

\* if _, ok := results[subPath]; !ok { results[subPath] = &FolderSize{...} }
\* for each sub-directory pushed
RECURSIVE RecordFrom(_, _, _)
RecordFrom(m, subs, i) ==
    IF i > Len(subs) THEN m
    ELSE RecordFrom(ensureFolder(m, subs[i]), subs, i + 1)
RecordKids(m, subs) == RecordFrom(m, subs, 1)

\* the orders sort.Slice may leave the records in: any order with the Sizes
\* non-increasing (the sort is not stable and the map is ranged over in
\* random order)
RECURSIVE BySize(_, _)
BySize(m, S) ==
    IF S = {} THEN { <<>> }
    ELSE LET top == {p \in S : \A x \in S : m[x].Size <= m[p].Size}
         IN  UNION { { <<m[p]>> \o rest : rest \in BySize(m, S \ {p}) } : p \in top }

\* BFSLOOP: for queue.Len() > 0 { select { case <-ctx.Done(): break BFSLOOP;
\* default: } ...; after the loop the map is copied to a slice and sorted
SliceCheck ==
    /\ spc = "check"
    /\ IF Len(sQueue) = 0 \/ sCancelled
       THEN /\ \E out \in BySize(sResults, DOMAIN sResults) : folders' = out
            /\ sBroke' = (Len(sQueue) > 0)
            /\ spc' = "close"
       ELSE /\ spc' = "visit"
            /\ UNCHANGED << folders, sBroke >>
    /\ UNCHANGED << excludeFlag, sQueue, sResults, sDirCount, sTotalBytes,
                    sUpdate, sKids, progChan, progChanClosed, sCancelled, srpc,
                    sLast, sScreen, sSent, sDone, sReadTried >>
    /\ UNCHANGED << profile, root, scanVars, idVars, fldVars, pureVars >>

\* one iteration from queue.Front() up to the progress send
SliceVisit ==
    /\ spc = "visit"
    /\ LET dirPath == QFront(sQueue)
       IN  /\ sQueue' = QRemove(sQueue)
           /\ sDone' = Append(sDone, dirPath)
           /\ IF isExcluded(dirPath, excludeFlag)
              THEN /\ sResults' = [ensureFolder(sResults, dirPath) EXCEPT ![dirPath].Skipped = TRUE]
                   /\ spc' = "check"
                   /\ UNCHANGED << sDirCount, sTotalBytes, sUpdate, sKids, sReadTried >>
              ELSE \E rd \in ReadOutcomes(profile, root, dirPath, 0) :
                   LET sc == IF rd.err THEN [localSize |-> 0, skipDir |-> TRUE]
                             ELSE SliceScan(rd.ents, rd.slowAt)
                       tb == AddToTotal(sTotalBytes, sc)
                   IN  /\ sReadTried' = sReadTried \cup {dirPath}
                       /\ sResults' = [ensureFolder(sResults, dirPath)
                                          EXCEPT ![dirPath].Size = sc.localSize,
                                                 ![dirPath].Skipped = sc.skipDir]
                       /\ sDirCount' = sDirCount + 1
                       /\ sTotalBytes' = tb
                       /\ sUpdate' = [CurrentDir |-> dirPath,
                                      NumDirs    |-> sDirCount + 1,
                                      BytesTotal |-> tb]
                       /\ sKids' = IF ~sc.skipDir /\ ~rd.err
                                   THEN SubPaths(dirPath, rd.ents, 1)
                                   ELSE <<>>
                       /\ spc' = "send"
    /\ UNCHANGED << excludeFlag, progChan, progChanClosed, sCancelled, srpc,
                    sLast, sScreen, folders, sSent, sBroke >>
    /\ UNCHANGED << profile, root, scanVars, idVars, fldVars, pureVars >>

\* progChan <- progressUpdate{...} (blocks while the buffer is full), then the
\* rest of the iteration: the sub-directories get a record and are pushed
SliceSend ==
    /\ spc = "send"
    /\ Len(progChan) < SliceChanCap
    /\ progChan' = Append(progChan, sUpdate)
    /\ sSent' = Append(sSent, sUpdate)
    /\ sResults' = RecordKids(sResults, sKids)
    /\ sQueue' = sQueue \o sKids
    /\ sKids' = <<>>
    /\ spc' = "check"
    /\ UNCHANGED << excludeFlag, sDirCount, sTotalBytes, sUpdate, progChanClosed,
                    sCancelled, srpc, sLast, sScreen, folders, sDone, sReadTried,
                    sBroke >>
    /\ UNCHANGED << profile, root, scanVars, idVars, fldVars, pureVars >>

\* close(progChan)
SliceClose ==
    /\ spc = "close"
    /\ progChanClosed' = TRUE
    /\ spc' = "waitDone"
    /\ UNCHANGED << excludeFlag, sQueue, sResults, sDirCount, sTotalBytes,
                    sUpdate, sKids, progChan, sCancelled, srpc, sLast, sScreen,
                    folders, sSent, sDone, sReadTried, sBroke >>
    /\ UNCHANGED << profile, root, scanVars, idVars, fldVars, pureVars >>

\* <-doneChan in main meets done <- true in the reporter (unbuffered)
SliceDone ==
    /\ spc = "waitDone"
    /\ srpc = "sendDone"
    /\ spc' = "print"
    /\ srpc' = "exited"
    /\ UNCHANGED << excludeFlag, sQueue, sResults, sDirCount, sTotalBytes,
                    sUpdate, sKids, progChan, progChanClosed, sCancelled, sLast,
                    sScreen, folders, sSent, sDone, sReadTried, sBroke >>
    /\ UNCHANGED << profile, root, scanVars, idVars, fldVars, pureVars >>

\* the signal goroutine: <-sigChan; cancel()
SliceInterrupt ==
    /\ ~sCancelled
    /\ spc # "print"
    /\ sCancelled' = TRUE
    /\ UNCHANGED << excludeFlag, spc, sQueue, sResults, sDirCount, sTotalBytes,
                    sUpdate, sKids, progChan, progChanClosed, srpc, sLast,
                    sScreen, folders, sSent, sDone, sReadTried, sBroke >>
    /\ UNCHANGED << profile, root, scanVars, idVars, fldVars, pureVars >>

\* progressReporter: case <-ctx.Done(): clear the line, then done <- true
SliceRepCtxDone ==
    /\ srpc = "select"
    /\ sCancelled
    /\ sScreen' = Blank
    /\ srpc' = "sendDone"
    /\ UNCHANGED << excludeFlag, spc, sQueue, sResults, sDirCount, sTotalBytes,
                    sUpdate, sKids, progChan, progChanClosed, sCancelled, sLast,
                    folders, sSent, sDone, sReadTried, sBroke >>
    /\ UNCHANGED << profile, root, scanVars, idVars, fldVars, pureVars >>

\* progressReporter: case upd, ok := <-progChan with ok: last = upd
SliceRepRecv ==
    /\ srpc = "select"
    /\ Len(progChan) > 0
    /\ sLast' = Head(progChan)
    /\ progChan' = Tail(progChan)
    /\ UNCHANGED << excludeFlag, spc, sQueue, sResults, sDirCount, sTotalBytes,
                    sUpdate, sKids, progChanClosed, sCancelled, srpc, sScreen,
                    folders, sSent, sDone, sReadTried, sBroke >>
    /\ UNCHANGED << profile, root, scanVars, idVars, fldVars, pureVars >>

\* progressReporter: case upd, ok := <-progChan with !ok
SliceRepClosed ==
    /\ srpc = "select"
    /\ Len(progChan) = 0
    /\ progChanClosed
    /\ sScreen' = Blank
    /\ srpc' = "sendDone"
    /\ UNCHANGED << excludeFlag, spc, sQueue, sResults, sDirCount, sTotalBytes,
                    sUpdate, sKids, progChan, progChanClosed, sCancelled, sLast,
                    folders, sSent, sDone, sReadTried, sBroke >>
    /\ UNCHANGED << profile, root, scanVars, idVars, fldVars, pureVars >>

\* progressReporter: case <-ticker.C: print last
SliceRepTick ==
    /\ srpc = "select"
    /\ sScreen' = "progress"
    /\ UNCHANGED << excludeFlag, spc, sQueue, sResults, sDirCount, sTotalBytes,
                    sUpdate, sKids, progChan, progChanClosed, sCancelled, srpc,
                    sLast, folders, sSent, sDone, sReadTried, sBroke >>
    /\ UNCHANGED << profile, root, scanVars, idVars, fldVars, pureVars >>

\* the --exclude lists tried with a root: none, and the one path <root>/z
SliceExcludes(r) == { <<>>, << Join(r, Str_z) >> }

\* the state when main calls bfsScan: the reporter goroutine is started, the
\* queue holds the root and the root has its record
InitSlice ==
    /\ profile = "wide"
    /\ root \in Roots
    /\ excludeFlag \in SliceExcludes(root)
    /\ spc = "check"
    /\ sQueue = PushBack(<<>>, root)
    /\ sResults = ensureFolder(EmptyMap, root)
    /\ sDirCount = 0
    /\ sTotalBytes = 0
    /\ sUpdate = ZeroUpdate
    /\ sKids = <<>>
    /\ progChan = <<>>
    /\ progChanClosed = FALSE
    /\ sCancelled = FALSE
    /\ srpc = "select"
    /\ sLast = ZeroUpdate
    /\ sScreen = Blank
    /\ folders = <<>>
    /\ sSent = <<>>
    /\ sDone = <<>>
    /\ sReadTried = {}
    /\ sBroke = FALSE
    /\ ScanOff /\ IdOff /\ FldOff /\ PureOff

NextSlice ==
    \/ SliceCheck
    \/ SliceVisit
    \/ SliceSend
    \/ SliceClose
    \/ SliceDone
    \/ SliceInterrupt
    \/ SliceRepCtxDone
    \/ SliceRepRecv
    \/ SliceRepClosed
    \/ SliceRepTick

SpecSlice == InitSlice /\ [][NextSlice]_vars

----------------------------------------------------------------------------
(* Progress events and the returned list of the slice-returning scan *)

\* the directories ioutil.ReadDir was called on, in the order they were
\* dequeued
RECURSIVE Attempted(_)
Attempted(n) ==
    IF n = 0 THEN <<>>
    ELSE Attempted(n - 1)
         \o (IF sDone[n] \in sReadTried THEN << sDone[n] >> ELSE <<>>)

\* the Sizes of the first n of those directories that are not Skipped
RECURSIVE UnskippedBytes(_, _)
UnskippedBytes(seq, n) ==
    IF n = 0 THEN 0
    ELSE UnskippedBytes(seq, n - 1)
         + (IF sResults[seq[n]].Skipped THEN 0 ELSE sResults[seq[n]].Size)

\* what the i-th progress event must carry
EventAsClaimed(e, i) ==
    LET att == Attempted(Len(sDone))
    IN  /\ i <= Len(att)
        /\ e.CurrentDir = att[i]
        /\ e.NumDirs = i
        /\ e.BytesTotal = UnskippedBytes(att, i)

\* C31: the BytesTotal of every progress event is the sum of Size over the
\* directories processed so far that were not skipped, and its NumDirs is the
\* number of directories read or attempted so far, those rejected by the
\* exclusion policy not counted
C31_EventCountsUnskippedBytes ==
    /\ \A i \in 1..Len(sSent) : EventAsClaimed(sSent[i], i)
    /\ spc = "send" => EventAsClaimed(sUpdate, Len(sSent) + 1)

\* three events were sent, the second for a directory cut short by the time
\* check after it had counted bytes, the third for one read to its end, and
\* an excluded directory was dequeued between the two
C31_Witness ==
    /\ Len(sSent) = 3
    /\ Len(sDone) = 4
    /\ sResults[sDone[2]].Skipped
    /\ sResults[sDone[2]].Size > 0
    /\ sDone[3] \notin sReadTried
    /\ sSent[3].CurrentDir = sDone[4]
    /\ sSent[3].BytesTotal > 0

\* the paths of the records of a list
PathsOf(list) == {list[i].Path : i \in 1..Len(list)}

\* bfsScan of the slice-returning program has returned
SliceReturned == spc \in {"close", "waitDone", "print"}

\* C38: every directory in the queue has a record from the moment it is
\* enqueued, with Size 0 and Skipped false; so when the scan is left on
\* cancellation the returned list holds every directory still in the queue,
\* each with Size 0 and Skipped false, and is a strict superset of the
\* directories that reached a terminal state
C38_QueuedDirectoriesReturned ==
    /\ \A p \in Range(sQueue) :
           /\ p \in DOMAIN sResults
           /\ sResults[p] = FolderResult(p, 0, FALSE)
           /\ p \notin Range(sDone)
    /\ (SliceReturned /\ sBroke) =>
           /\ sQueue # <<>>
           /\ \A p \in Range(sQueue) :
                  \E i \in 1..Len(folders) : folders[i] = FolderResult(p, 0, FALSE)
           /\ Range(sDone) \subseteq PathsOf(folders)
           /\ Range(sDone) # PathsOf(folders)

\* the scan was left on cancellation with two directories in the queue and
\* two in a terminal state
C38_Witness ==
    /\ SliceReturned
    /\ sBroke
    /\ Len(sQueue) = 2
    /\ Len(sDone) = 2
    /\ Len(folders) = 4

====
